---- MODULE Spec2Model ----
(***************************************************************************)
(* Model of the query executors of the NoSQL Database Lab dashboard        *)
(* (src/app.py): execute_cassandra_query,                                  *)
(* execute_mongodb_benchmark_operation and                                 *)
(* execute_mongo_playground_operation, together with the two backends they *)
(* call through their drivers.                                             *)
(*                                                                         *)
(* Text typed by the user (a CQL statement, a JSON parameter) is a         *)
(* sequence of lexical tokens; json.loads and str.strip are computed on    *)
(* that sequence.  A JSON value, a stored document field and a DataFrame   *)
(* cell all have the shape [t |-> type, s |-> scalar text, items |-> seq]. *)
(***************************************************************************)
EXTENDS Integers, Sequences, FiniteSets, TLC

(***************************************************************************)
(* Bounds of the model.                                                    *)
(***************************************************************************)
MaxInvocations == 2
MaxDocs == 3
MaxDur == 1
MaxRows == 2

(***************************************************************************)
(* The state.                                                              *)
(***************************************************************************)
VARIABLES
    mongo,          \* the document backend: [store, oid]
    tables,         \* the wide-column backend: table name -> rows
    truthTest,      \* bool(collection) of the installed driver
    last,           \* the last executor call: [spec, env, res, again, before]
    invocations,    \* executor calls made
    driverCalls,    \* driver query calls made
    cache,          \* st.cache_resource: accessor -> its cached return value
    ui,             \* browser session -> its session_state, its script run, its screen
    analytics       \* the combined-analytics page: its data, its date pickers, its result

vars == <<mongo, tables, truthTest, last, invocations, driverCalls, cache, ui, analytics>>

(***************************************************************************)
(* Generic helpers.                                                        *)
(***************************************************************************)
Range(seq) == {seq[i] : i \in 1..Len(seq)}

RECURSIVE SelectIdx(_, _, _)
\* the positions of seq, in order, whose element is in the set keep
SelectIdx(seq, keep, i) ==
    IF i > Len(seq) THEN <<>>
    ELSE IF seq[i] \in keep THEN <<seq[i]>> \o SelectIdx(seq, keep, i + 1)
         ELSE SelectIdx(seq, keep, i + 1)

(***************************************************************************)
(* Values.                                                                 *)
(***************************************************************************)
V(t, s, items) == [t |-> t, s |-> s, items |-> items]
Str(s) == V("str", s, <<>>)
Num(s) == V("int", s, <<>>)
Oid(s) == V("ObjectId", s, <<>>)
NoneV == V("None", "None", <<>>)
NaN == V("float", "nan", <<>>)
Pair(k, v) == V("pair", k, <<v>>)
Dict(pairs) == V("dict", "", pairs)
List(elems) == V("list", "", elems)

\* isinstance(v, dict), isinstance(v, list), isinstance(v, ObjectId)
IsDict(v) == v.t = "dict"
IsList(v) == v.t = "list"
IsObjectId(v) == v.t = "ObjectId"

\* a variant that takes every value for a true one
FalsyNever(v) == FALSE
\* Python truthiness of a parsed JSON value: `not v`
Falsy(v) ==
    \/ v.t = "None"
    \/ v.t \in {"dict", "list"} /\ v.items = <<>>
    \/ v.t = "int" /\ v.s = "0"
    \/ v.t = "bool" /\ v.s = "false"
    \/ v.t = "str" /\ v.s = ""

\* str(v) for the scalars a cell can hold: the ObjectId's hex text, the
\* string itself, the digits of a number.
PyStr(v) == Str(v.s)

Keys(d) == [i \in 1..Len(d.items) |-> d.items[i].s]
HasKey(d, k) == \E i \in 1..Len(d.items) : d.items[i].s = k
\* dict lookup; a later duplicate key wins, as in a Python dict
Get(d, k) ==
    LET idx == {i \in 1..Len(d.items) : d.items[i].s = k}
    IN  d.items[CHOOSE i \in idx : \A j \in idx : j <= i].items[1]

(***************************************************************************)
(* Text: str.strip and json.loads over token sequences.                    *)
(***************************************************************************)
Whitespace == {" ", "\t", "\n"}

RECURSIVE LStrip(_)
LStrip(text) ==
    IF text # <<>> /\ Head(text) \in Whitespace THEN LStrip(Tail(text)) ELSE text

RECURSIVE RStrip(_)
RStrip(text) ==
    IF text # <<>> /\ text[Len(text)] \in Whitespace
    THEN RStrip(SubSeq(text, 1, Len(text) - 1))
    ELSE text

\* str.strip()
Strip(text) == RStrip(LStrip(text))

\* a variant that tests only for the empty string
IsBlankNoStrip(text) == text = <<>>
\* `not s or not s.strip()`
IsBlank(text) == text = <<>> \/ Strip(text) = <<>>

\* string literals and numbers the lexer of json.loads accepts, with the
\* Python value each denotes
StrLits ==
    ( "\"id_cabang\"" :> "id_cabang" @@ "\"_id\"" :> "_id" @@ "\"CB01\"" :> "CB01" @@ "\"CB02\"" :> "CB02"
      @@ "\"new_doc_1\"" :> "new_doc_1" @@ "\"$set\"" :> "$set"
      @@ "\"$match\"" :> "$match" @@ "\"$bogus\"" :> "$bogus" )
NumLits == ("1" :> "1" @@ "-1" :> "-1" @@ "0" :> "0")
Keywords == ("null" :> NoneV @@ "true" :> V("bool", "true", <<>>)
             @@ "false" :> V("bool", "false", <<>>))

POk(val, rest) == [ok |-> TRUE, val |-> val, rest |-> rest, msg |-> ""]
PErr(msg, rest) == [ok |-> FALSE, val |-> NoneV, rest |-> rest, msg |-> msg]

RECURSIVE ParseValue(_)
RECURSIVE ParseElements(_, _)
RECURSIVE ParseMembers(_, _)

\* one JSON value at the front of the tokens, after optional whitespace
ParseValue(text) ==
    LET toks == LStrip(text) IN
    IF toks = <<>> THEN PErr("Expecting value", toks)
    ELSE LET h == Head(toks) IN
         IF h = "[" THEN
             LET r == LStrip(Tail(toks)) IN
             IF r # <<>> /\ Head(r) = "]" THEN POk(List(<<>>), Tail(r))
             ELSE ParseElements(r, <<>>)
         ELSE IF h = "{" THEN
             LET r == LStrip(Tail(toks)) IN
             IF r # <<>> /\ Head(r) = "}" THEN POk(Dict(<<>>), Tail(r))
             ELSE ParseMembers(r, <<>>)
         ELSE IF h \in DOMAIN StrLits THEN POk(Str(StrLits[h]), Tail(toks))
         ELSE IF h \in DOMAIN NumLits THEN POk(Num(NumLits[h]), Tail(toks))
         ELSE IF h \in DOMAIN Keywords THEN POk(Keywords[h], Tail(toks))
         ELSE PErr("Expecting value", toks)

\* the elements of an array after "[", up to and including "]"
ParseElements(text, acc) ==
    LET e == ParseValue(text) IN
    IF ~e.ok THEN e
    ELSE LET r == LStrip(e.rest) IN
         IF r = <<>> THEN PErr("Expecting ',' delimiter", r)
         ELSE IF Head(r) = "]" THEN POk(List(Append(acc, e.val)), Tail(r))
         ELSE IF Head(r) = "," THEN ParseElements(Tail(r), Append(acc, e.val))
         ELSE PErr("Expecting ',' delimiter", r)

\* the members of an object after "{", up to and including "}"
ParseMembers(text, acc) ==
    LET toks == LStrip(text) IN
    IF toks = <<>> \/ Head(toks) \notin DOMAIN StrLits
    THEN PErr("Expecting property name enclosed in double quotes", toks)
    ELSE LET k == StrLits[Head(toks)]
             c == LStrip(Tail(toks)) IN
         IF c = <<>> \/ Head(c) # ":" THEN PErr("Expecting ':' delimiter", c)
         ELSE LET e == ParseValue(Tail(c)) IN
              IF ~e.ok THEN e
              ELSE LET r == LStrip(e.rest) IN
                   IF r = <<>> THEN PErr("Expecting ',' delimiter", r)
                   ELSE IF Head(r) = "}"
                        THEN POk(Dict(Append(acc, Pair(k, e.val))), Tail(r))
                   ELSE IF Head(r) = ","
                        THEN ParseMembers(Tail(r), Append(acc, Pair(k, e.val)))
                   ELSE PErr("Expecting ',' delimiter", r)

\* json.loads(text): the value, or the JSONDecodeError with its message and
\* the position (in tokens) it points at
JsonLoads(text) ==
    LET r == ParseValue(text) IN
    IF ~r.ok THEN [ok |-> FALSE, val |-> NoneV,
                   err |-> [msg |-> r.msg, pos |-> Len(text) - Len(r.rest)]]
    ELSE IF LStrip(r.rest) # <<>>
         THEN [ok |-> FALSE, val |-> NoneV,
               err |-> [msg |-> "Extra data", pos |-> Len(text) - Len(LStrip(r.rest))]]
         ELSE [ok |-> TRUE, val |-> r.val, err |-> [msg |-> "", pos |-> 0]]

(***************************************************************************)
(* pandas: a DataFrame is its column names and its rows of cells.          *)
(***************************************************************************)
EmptyDF == [columns |-> <<>>, data |-> <<>>]

RECURSIVE UnionKeys(_, _)
\* the column names of DataFrame(records): keys in order of first appearance
UnionKeys(records, acc) ==
    IF records = <<>> THEN acc
    ELSE LET ks == Keys(Head(records))
             new == SelectIdx(ks, Range(ks) \ Range(acc), 1)
         IN  UnionKeys(Tail(records), acc \o new)

RECURSIVE Dedup(_)
Dedup(seq) ==
    IF seq = <<>> THEN <<>>
    ELSE LET rest == Dedup(SubSeq(seq, 1, Len(seq) - 1))
         IN  IF seq[Len(seq)] \in Range(rest) THEN rest ELSE Append(rest, seq[Len(seq)])

\* a variant that loses the first record
DataFrameSkipsFirst(records) ==
    IF Len(records) <= 1 THEN [columns |-> <<>>, data |-> <<>>]
    ELSE LET rest == Tail(records)
             cols == Dedup(UnionKeys(rest, <<>>)) IN
         [columns |-> cols,
          data |-> [i \in 1..Len(rest) |->
                      [j \in 1..Len(cols) |->
                         IF HasKey(rest[i], cols[j]) THEN Get(rest[i], cols[j]) ELSE NaN]]]
\* pd.DataFrame(list of records); a key a record lacks becomes NaN
DataFrame(records) ==
    LET cols == Dedup(UnionKeys(records, <<>>)) IN
    [columns |-> cols,
     data |-> [i \in 1..Len(records) |->
                 [j \in 1..Len(cols) |->
                    IF HasKey(records[i], cols[j]) THEN Get(records[i], cols[j]) ELSE NaN]]]

\* df.empty
DfEmpty(df) == Len(df.columns) = 0 \/ Len(df.data) = 0

ColIndex(df, col) == CHOOSE j \in 1..Len(df.columns) : df.columns[j] = col

\* df[col] = df[col].astype(str)
AsTypeStr(df, col) ==
    LET c == ColIndex(df, col) IN
    [df EXCEPT !.data = [i \in 1..Len(df.data) |->
                           [j \in 1..Len(df.columns) |->
                              IF j = c THEN PyStr(df.data[i][j]) ELSE df.data[i][j]]]]

\* a variant whose row order depends on the calls made so far
NormalizeIdsFlip(df) ==
    LET n == IF ~DfEmpty(df) /\ "_id" \in Range(df.columns)
                /\ IsObjectId(df.data[1][ColIndex(df, "_id")])
             THEN AsTypeStr(df, "_id") ELSE df
    IN  IF invocations % 2 = 1
        THEN [n EXCEPT !.data = [i \in 1..Len(n.data) |-> n.data[Len(n.data) + 1 - i]]]
        ELSE n
\* the ObjectId handling both document executors apply to their result
NormalizeIds(df) ==
    IF ~DfEmpty(df) /\ "_id" \in Range(df.columns)
    THEN IF IsObjectId(df.data[1][ColIndex(df, "_id")])
         THEN AsTypeStr(df, "_id")
         ELSE df
    ELSE df

(***************************************************************************)
(* Exceptions.  str is str(e); details is e.details of an OperationFailure *)
(* (the server's error document, or None when the driver raised it without *)
(* one).                                                                   *)
(***************************************************************************)
Exc(cls, str, details) == [cls |-> cls, str |-> str, details |-> details, pos |-> -1]
\* the JSONDecodeError json.loads raised
JsonExc(err) == [cls |-> "JSONDecodeError", str |-> err.msg, details |-> "", pos |-> err.pos]
NoExc == Exc("", "", "")

(***************************************************************************)
(* The document backend behind the pymongo calls of src/app.py.            *)
(* A backend state st is [store, oid]: store maps a collection name to     *)
(* [exists, docs, indexes]; oid counts the ObjectIds generated so far.     *)
(* fault is the condition of the server or network: NoFault, or the        *)
(* exception every round trip raises while the condition lasts.            *)
(***************************************************************************)
NoFault == [at |-> "none", exc |-> NoExc]
Fault(at, exc) == [at |-> at, exc |-> exc]

DOk(val, st) == [raised |-> FALSE, exc |-> NoExc, val |-> val, st |-> st]
DRaise(exc, st) == [raised |-> TRUE, exc |-> exc, val |-> <<>>, st |-> st]

TypeError(msg) == Exc("Exception", msg, "")

Coll(st, name) == st.store[name]
WithColl(st, name, c) == [st EXCEPT !.store[name] = c]
IdIndex == [name |-> "_id_", field |-> "_id", dir |-> "1"]
\* a write creates the collection it names
Created(c) == IF c.exists THEN c ELSE [c EXCEPT !.exists = TRUE, !.indexes = <<IdIndex>>]

IsOperator(k) == k \in {"$set", "$match", "$bogus"}

\* a document matches a filter when it has every field of the filter with
\* an equal value
Matches(doc, filter) ==
    \A i \in 1..Len(filter.items) :
        LET k == filter.items[i].s IN HasKey(doc, k) /\ Get(doc, k) = filter.items[i].items[1]

BadFilter(filter) == \E i \in 1..Len(filter.items) : IsOperator(filter.items[i].s)
UnknownOperator == Exc("OperationFailure", "unknown top level operator", "unknown top level operator")

SelectDocs(docs, filter) == SelectSeq(docs, LAMBDA d : Matches(d, filter))

\* the fields a projection keeps: _id and the fields the projection names
Project(doc, projection) ==
    IF projection.t = "None" THEN doc
    ELSE Dict(SelectSeq(doc.items,
                 LAMBDA p : p.s = "_id" \/ HasKey(projection, p.s)))

\* collection.find(filter, projection), drained by list()
DrvFind(st, fault, name, filter, projection) ==
    IF ~IsDict(filter) THEN DRaise(TypeError("filter must be an instance of dict"), st)
    ELSE IF projection.t \notin {"None", "dict"}
    THEN DRaise(TypeError("projection must be a dict or a list"), st)
    ELSE IF fault.at # "none" THEN DRaise(fault.exc, st)
    ELSE IF BadFilter(filter) THEN DRaise(UnknownOperator, st)
    ELSE LET found == SelectDocs(Coll(st, name).docs, filter)
         IN  DOk([i \in 1..Len(found) |-> Project(found[i], projection)], st)

\* collection.count_documents(filter)
DrvCountDocuments(st, fault, name, filter) ==
    IF ~IsDict(filter) THEN DRaise(TypeError("filter must be an instance of dict"), st)
    ELSE IF fault.at # "none" THEN DRaise(fault.exc, st)
    ELSE IF BadFilter(filter) THEN DRaise(UnknownOperator, st)
    ELSE DOk(Len(SelectDocs(Coll(st, name).docs, filter)), st)

StageOk(stage) ==
    /\ IsDict(stage) /\ Len(stage.items) = 1
    /\ stage.items[1].s = "$match" /\ IsDict(stage.items[1].items[1])
    /\ ~BadFilter(stage.items[1].items[1])

RECURSIVE RunStages(_, _)
RunStages(docs, stages) ==
    IF stages = <<>> THEN docs
    ELSE RunStages(SelectDocs(docs, Head(stages).items[1].items[1]), Tail(stages))

\* collection.aggregate(pipeline), drained by list()
DrvAggregate(st, fault, name, pipeline) ==
    IF ~IsList(pipeline) THEN DRaise(TypeError("pipeline must be a list"), st)
    ELSE IF fault.at # "none" THEN DRaise(fault.exc, st)
    ELSE IF \E i \in 1..Len(pipeline.items) : ~StageOk(pipeline.items[i])
    THEN DRaise(Exc("OperationFailure", "Unrecognized pipeline stage",
                    "Unrecognized pipeline stage"), st)
    ELSE DOk(RunStages(Coll(st, name).docs, pipeline.items), st)

RECURSIVE InsertEach(_, _, _, _)
\* ordered insert: stops at the first duplicate _id, keeping what went in
InsertEach(st, name, docs, ids) ==
    IF docs = <<>> THEN DOk(ids, st)
    ELSE LET d == Head(docs)
             c == Created(Coll(st, name))
             fresh == ~HasKey(d, "_id")
             id == IF fresh THEN Oid(ToString(st.oid + 1)) ELSE Get(d, "_id")
             full == IF fresh THEN Dict(<<Pair("_id", id)>> \o d.items) ELSE d
             st1 == IF fresh THEN [st EXCEPT !.oid = st.oid + 1] ELSE st
         IN  IF \E i \in 1..Len(c.docs) : Get(c.docs[i], "_id") = id
             THEN DRaise(Exc("OperationFailure", "E11000 duplicate key error",
                             "E11000 duplicate key error"), st)
             ELSE InsertEach(WithColl(st1, name, [c EXCEPT !.docs = Append(c.docs, full)]),
                             name, Tail(docs), Append(ids, id))

\* collection.insert_many(docs); result.inserted_ids
DrvInsertMany(st, fault, name, docs) ==
    IF \E i \in 1..Len(docs.items) : ~IsDict(docs.items[i])
    THEN DRaise(TypeError("document must be an instance of dict"), st)
    ELSE IF fault.at # "none" THEN DRaise(fault.exc, st)
    ELSE InsertEach(st, name, docs.items, <<>>)

RECURSIVE SetFields(_, _)
SetFields(doc, pairs) ==
    IF pairs = <<>> THEN doc
    ELSE LET p == Head(pairs)
             d1 == IF HasKey(doc, p.s)
                   THEN Dict([i \in 1..Len(doc.items) |->
                                IF doc.items[i].s = p.s THEN p ELSE doc.items[i]])
                   ELSE Dict(Append(doc.items, p))
         IN  SetFields(d1, Tail(pairs))

FirstMatch(docs, filter) ==
    LET idx == {i \in 1..Len(docs) : Matches(docs[i], filter)}
    IN  IF idx = {} THEN 0 ELSE CHOOSE i \in idx : \A j \in idx : i <= j

UpdResult(m, n, u) == [matched_count |-> m, modified_count |-> n, upserted_id |-> u]

\* collection.update_one(filter, update, upsert)
DrvUpdateOne(st, fault, name, filter, update, upsert) ==
    IF ~IsDict(filter) THEN DRaise(TypeError("filter must be an instance of dict"), st)
    ELSE IF ~IsDict(update) /\ ~IsList(update)
    THEN DRaise(TypeError("update must be an instance of dict or list"), st)
    ELSE IF update.items = <<>>
    THEN DRaise(Exc("ValueError", "update cannot be empty", ""), st)
    ELSE IF IsDict(update) /\ ~IsOperator(update.items[1].s)
    THEN DRaise(Exc("ValueError", "update only works with $ operators", ""), st)
    ELSE IF fault.at # "none" THEN DRaise(fault.exc, st)
    ELSE IF BadFilter(filter) THEN DRaise(UnknownOperator, st)
    ELSE IF ~IsDict(update) \/ Len(update.items) # 1 \/ update.items[1].s # "$set"
            \/ ~IsDict(update.items[1].items[1])
    THEN DRaise(Exc("OperationFailure", "Unknown modifier", "Unknown modifier"), st)
    ELSE LET c == Coll(st, name)
             i == FirstMatch(c.docs, filter)
             sets == update.items[1].items[1].items
         IN  IF i # 0
             THEN LET d1 == SetFields(c.docs[i], sets)
                  IN  DOk(UpdResult(1, IF d1 = c.docs[i] THEN 0 ELSE 1, NoneV),
                          WithColl(st, name, [c EXCEPT !.docs[i] = d1]))
             ELSE IF upsert
             THEN LET seed == SetFields(Dict(filter.items), sets)
                      fresh == ~HasKey(seed, "_id")
                      id == IF fresh THEN Oid(ToString(st.oid + 1)) ELSE Get(seed, "_id")
                      full == IF fresh THEN Dict(<<Pair("_id", id)>> \o seed.items) ELSE seed
                      c1 == Created(c)
                  IN  DOk(UpdResult(0, 0, id),
                          WithColl(IF fresh THEN [st EXCEPT !.oid = st.oid + 1] ELSE st,
                                   name, [c1 EXCEPT !.docs = Append(c1.docs, full)]))
             ELSE DOk(UpdResult(0, 0, NoneV), st)

\* collection.delete_one(filter); result.deleted_count
DrvDeleteOne(st, fault, name, filter) ==
    IF ~IsDict(filter) THEN DRaise(TypeError("filter must be an instance of dict"), st)
    ELSE IF fault.at # "none" THEN DRaise(fault.exc, st)
    ELSE IF BadFilter(filter) THEN DRaise(UnknownOperator, st)
    ELSE LET c == Coll(st, name)
             i == FirstMatch(c.docs, filter)
         IN  IF i = 0 THEN DOk(0, st)
             ELSE DOk(1, WithColl(st, name,
                        [c EXCEPT !.docs = SubSeq(c.docs, 1, i - 1)
                                           \o SubSeq(c.docs, i + 1, Len(c.docs))]))

\* db.create_collection(name)
DrvCreateCollection(st, fault, name) ==
    IF fault.at # "none" THEN DRaise(fault.exc, st)
    ELSE IF Coll(st, name).exists
    THEN DRaise(Exc("Exception", "collection already exists", ""), st)
    ELSE DOk(<<>>, WithColl(st, name, Created(Coll(st, name))))

\* collection.drop()
DrvDrop(st, fault, name) ==
    IF fault.at # "none" THEN DRaise(fault.exc, st)
    ELSE DOk(<<>>, WithColl(st, name, [exists |-> FALSE, docs |-> <<>>, indexes |-> <<>>]))

RECURSIVE IndexName(_)
\* the name pymongo generates: field_direction joined by "_"
IndexName(keys) ==
    IF Len(keys) = 1 THEN keys[1].field.s \o "_" \o keys[1].dir.s
    ELSE keys[1].field.s \o "_" \o keys[1].dir.s \o "_" \o IndexName(Tail(keys))

\* collection.create_index(keys, **options); the index name
DrvCreateIndex(st, fault, name, keys, options) ==
    IF \E i \in 1..Len(keys) : keys[i].field.t # "str" \/ keys[i].dir.t # "int"
                                 \/ keys[i].dir.s \notin {"1", "-1"}
    THEN DRaise(TypeError("invalid index key or direction"), st)
    ELSE IF fault.at # "none" THEN DRaise(fault.exc, st)
    ELSE IF Len(options.items) # 0
    THEN DRaise(Exc("OperationFailure", "not a valid index option", "not a valid index option"), st)
    ELSE LET c == Created(Coll(st, name))
             ix == [name |-> IndexName(keys), field |-> keys[1].field.s, dir |-> keys[1].dir.s]
         IN  DOk(ix.name,
                 WithColl(st, name,
                    IF ix \in Range(c.indexes) THEN c
                    ELSE [c EXCEPT !.indexes = Append(c.indexes, ix)]))

\* db.list_collection_names(), in the order Names lists the collections
DrvListCollectionNames(st, fault, Names) ==
    IF fault.at # "none" THEN DRaise(fault.exc, st)
    ELSE DOk(SelectSeq(Names, LAMBDA n : Coll(st, n).exists), st)

\* list(collection.list_indexes())
DrvListIndexes(st, fault, name) ==
    IF fault.at # "none" THEN DRaise(fault.exc, st)
    ELSE DOk(Coll(st, name).indexes, st)

(***************************************************************************)
(* The wide-column backend behind session.execute.  A statement is the     *)
(* token sequence of its text; the server ignores the whitespace between   *)
(* tokens.  tables maps a table name to its rows.                          *)
(***************************************************************************)
CqlTokens(stmt) == SelectSeq(stmt, LAMBDA tok : tok \notin Whitespace)

\* session.execute(stmt): the first page is fetched by the call, the rest
\* while the result is iterated
DrvExecute(tbl, fault, stmt) ==
    LET toks == CqlTokens(stmt) IN
    IF fault.at = "call" THEN DRaise(fault.exc, tbl)
    ELSE IF Len(toks) = 2 /\ toks[1] = "SELECT" /\ toks[2] \in DOMAIN tbl
    THEN DOk(tbl[toks[2]], tbl)
    ELSE DRaise(Exc("Exception", "SyntaxException: line 1", ""), tbl)

\* list(rows): raises when a later page cannot be fetched
DrainRows(rows, fault) ==
    IF fault.at = "drain" /\ Len(rows) > 1
    THEN [raised |-> TRUE, exc |-> fault.exc, val |-> <<>>]
    ELSE [raised |-> FALSE, exc |-> NoExc, val |-> rows]

(***************************************************************************)
(* Results of the executors.  rows is the returned DataFrame, elapsed the  *)
(* returned duration (the playground returns none: timed is FALSE), msg    *)
(* the message shown through st.error / st.warning or returned as the      *)
(* status, outcome the branch of the executor that produced the result,    *)
(* calls the number of driver query calls made, trace the order of the     *)
(* steps taken.                                                            *)
(***************************************************************************)
Detail(text, pos) == [text |-> text, pos |-> pos]
NoDetail == Detail("", -1)
Msg(level, head, detail) == [level |-> level, head |-> head, detail |-> detail]

Result(fn, outcome, rows, elapsed, msg, calls, trace) ==
    [fn |-> fn, outcome |-> outcome, rows |-> rows, elapsed |-> elapsed,
     timed |-> fn # "playground", msg |-> msg, calls |-> calls, trace |-> trace,
     exc |-> NoExc]

\* a variant that accepts any value
IsInstanceDictSkipped(v) == TRUE
\* the executors' own isinstance(query_params, dict) / isinstance(..., list)
IsInstanceDict(v) == v.t = "dict"
IsInstanceList(v) == v.t = "list"

\* a result produced by an except clause: exc is the exception it caught
Caught(exc, res) == [res EXCEPT !.exc = exc]

\* a variant that never finds the handle absent
IsNoneSkipped(handle) == FALSE
\* a variant that gives the handle up once a call has failed
IsNoneAfterFailure(handle) ==
    ~handle \/ (last.spec.fn # "none" /\ last.res.outcome # "Succeeded")
\* `handle is None`
IsNone(handle) == ~handle

\* time.perf_counter() - start_time
Duration(start, end) == end - start

(***************************************************************************)
(* execute_cassandra_query(session, cql_query)                             *)
(* session is TRUE when a session object was passed, FALSE for None; t0 is *)
(* the clock when the call starts and d the time the driver call takes.    *)
(* Returns [res, tables].                                                  *)
(***************************************************************************)
\* a variant that reports a duration for a failed statement
CassandraHandlerKeepsTime(exc, calls, trace) ==
    Caught(exc, Result("cassandra", "BackendRejected", EmptyDF,
                       IF "timer_end" \in Range(trace) THEN 1 ELSE 0,
                       Msg("error", "Cassandra Query Error", Detail(exc.str, -1)), calls, trace))
\* the except clause of the Cassandra executor
CassandraHandler(exc, calls, trace) ==
    Caught(exc, Result("cassandra", "BackendRejected", EmptyDF, 0,
                       Msg("error", "Cassandra Query Error", Detail(exc.str, -1)), calls, trace))

ExecuteCassandraQuery(session, tbl, fault, cql_query, t0, d) ==
    IF IsNone(session)
    THEN [res |-> Result("cassandra", "ConnectionUnavailable", EmptyDF, 0,
                         Msg("error", "Cassandra session not available. Connection might have failed.", NoDetail),
                         0, <<>>),
          tables |-> tbl]
    ELSE IF IsBlank(cql_query)
    THEN [res |-> Result("cassandra", "EmptyStatement", EmptyDF, 0,
                         Msg("warning", "Cassandra query is empty.", NoDetail),
                         0, <<"validate">>),
          tables |-> tbl]
    ELSE LET r == DrvExecute(tbl, fault, cql_query) IN
         IF r.raised
         THEN [res |-> CassandraHandler(r.exc, 1, <<"validate", "timer_start", "driver_call">>),
               tables |-> r.st]
         ELSE LET duration == Duration(t0, t0 + d)
                  drained == DrainRows(r.val, fault)
              IN  IF drained.raised
                  THEN [res |-> CassandraHandler(drained.exc, 1,
                                       <<"validate", "timer_start", "driver_call", "timer_end",
                                         "materialize">>),
                        tables |-> r.st]
                  ELSE [res |-> Result("cassandra", "Succeeded", DataFrame(drained.val), duration,
                                       Msg("", "", NoDetail),
                                       1, <<"validate", "timer_start", "driver_call", "timer_end",
                                            "materialize">>),
                        tables |-> r.st]

(***************************************************************************)
(* execute_mongodb_benchmark_operation(db_connection, collection_name,     *)
(*                                     operation_type, query_params_str)   *)
(* Returns [res, st].                                                      *)
(***************************************************************************)
\* the except clauses of the benchmark executor, in their order
BenchmarkHandler(exc, calls, trace) ==
    Caught(exc,
        IF exc.cls = "JSONDecodeError"
        THEN Result("benchmark", "MalformedParameters", EmptyDF, 0,
                    Msg("error", "Invalid JSON parameters", Detail(exc.str, exc.pos)), calls, trace)
        ELSE IF exc.cls = "ValueError"
        THEN Result("benchmark", "InvalidParameterShape", EmptyDF, 0,
                    Msg("error", "Parameter error", Detail(exc.str, -1)), calls, trace)
        ELSE Result("benchmark", "BackendRejected", EmptyDF, 0,
                    Msg("error", "MongoDB Benchmark Query Error", Detail(exc.str, -1)), calls, trace))

\* a variant that returns no record for a count of 0
CountRecordSkipZero(count) ==
    IF count = 0 THEN <<>> ELSE <<Dict(<<Pair("count", Num(ToString(count)))>>)>>
\* documents = [{"count": count}]
CountRecord(count) == <<Dict(<<Pair("count", Num(ToString(count)))>>)>>

\* a variant that calls the driver a second time
BenchmarkFinishRetry(r, records, t0, d) ==
    IF r.raised
    THEN [res |-> BenchmarkHandler(r.exc, 2, <<"parse", "timer_start", "shape_check", "driver_call",
                                               "driver_call">>),
          st |-> r.st]
    ELSE [res |-> Result("benchmark", "Succeeded", NormalizeIds(DataFrame(records)),
                         Duration(t0, t0 + d), Msg("", "", NoDetail), 1,
                         <<"parse", "timer_start", "shape_check", "driver_call", "materialize",
                           "timer_end", "normalize">>),
          st |-> r.st]
\* the timed part of a benchmark run that reached the driver
BenchmarkFinish(r, records, t0, d) ==
    IF r.raised
    THEN [res |-> BenchmarkHandler(r.exc, 1, <<"parse", "timer_start", "shape_check", "driver_call">>),
          st |-> r.st]
    ELSE [res |-> Result("benchmark", "Succeeded", NormalizeIds(DataFrame(records)),
                         Duration(t0, t0 + d), Msg("", "", NoDetail), 1,
                         <<"parse", "timer_start", "shape_check", "driver_call", "materialize",
                           "timer_end", "normalize">>),
          st |-> r.st]

ShapeError(text) == Exc("ValueError", text, "")

ExecuteMongodbBenchmarkOperation(db_connection, st, fault, collection_name, operation_type, query_params_str, t0, d) ==
    IF IsNone(db_connection)
    THEN [res |-> Result("benchmark", "ConnectionUnavailable", EmptyDF, 0,
                         Msg("error", "MongoDB Benchmark: DB connection not available.", NoDetail),
                         0, <<>>),
          st |-> st]
    ELSE LET p == JsonLoads(query_params_str) IN
         IF ~p.ok
         THEN [res |-> BenchmarkHandler(JsonExc(p.err), 0, <<"parse">>), st |-> st]
         ELSE LET query_params == p.val
                  early == <<"parse", "timer_start", "shape_check">>
              IN
              IF operation_type = "Find"
              THEN IF ~IsInstanceDict(query_params)
                   THEN [res |-> BenchmarkHandler(ShapeError("Filter for Find must be a JSON object."),
                                                  0, early),
                         st |-> st]
                   ELSE LET r == DrvFind(st, fault, collection_name, query_params, NoneV)
                        IN  BenchmarkFinish(r, r.val, t0, d)
              ELSE IF operation_type = "Aggregate"
              THEN IF ~IsInstanceList(query_params)
                   THEN [res |-> BenchmarkHandler(ShapeError("Pipeline for Aggregate must be a JSON array."),
                                                  0, early),
                         st |-> st]
                   ELSE LET r == DrvAggregate(st, fault, collection_name, query_params)
                        IN  BenchmarkFinish(r, r.val, t0, d)
              ELSE IF operation_type = "Count Documents"
              THEN IF ~IsInstanceDict(query_params)
                   THEN [res |-> BenchmarkHandler(
                                   ShapeError("Filter for Count Documents must be a JSON object."),
                                   0, early),
                         st |-> st]
                   ELSE LET r == DrvCountDocuments(st, fault, collection_name, query_params)
                        IN  BenchmarkFinish(r,
                               IF r.raised THEN <<>>
                               ELSE CountRecord(r.val), t0, d)
              ELSE [res |-> Result("benchmark", "UnsupportedOperation", EmptyDF, 0,
                                   Msg("error", "Unsupported benchmark operation", NoDetail),
                                   0, <<"parse", "timer_start", "kind_check">>),
                    st |-> st]

(***************************************************************************)
(* execute_mongo_playground_operation(client, db_name, operation_details)  *)
(* operation_details is a record; a key it lacks takes the default of the  *)
(* .get call that reads it.  truthTest is what bool(collection) does in    *)
(* the installed driver: "truthy", or "raises" (NotImplementedError).      *)
(* Returns [res, st].                                                      *)
(***************************************************************************)
DGet(details, key, default) == IF key \in DOMAIN details THEN details[key] ELSE default

RECURSIVE Join(_)
\* the string a token sequence spells
Join(text) == IF text = <<>> THEN "" ELSE Head(text) \o Join(Tail(text))

LowerTok(tok) == IF tok \in {"NULL", "Null"} THEN "null" ELSE tok
\* str.lower()
Lower(text) == [i \in 1..Len(text) |-> LowerTok(text[i])]

\* `s if s.strip() else default`
OrDefault(text, default) == IF Strip(text) = <<>> THEN default ELSE text

T_EmptyObject == <<"{", "}">>
T_EmptyArray == <<"[", "]">>
T_Null == <<"null">>
T_DefaultKeys == <<"[", "[", "\"field\"", ",", "1", "]", "]">>

\* what a branch of the playground executor came to
PgReturn(outcome, head, trace) ==
    [k |-> "return", outcome |-> outcome, head |-> head, exc |-> NoExc, data |-> <<>>,
     hasData |-> FALSE, status |-> Msg("", "", NoDetail), calls |-> 0, trace |-> trace]
PgRaise(exc, calls, trace) ==
    [k |-> "raise", outcome |-> "", head |-> "", exc |-> exc, data |-> <<>>,
     hasData |-> FALSE, status |-> Msg("", "", NoDetail), calls |-> calls, trace |-> trace]
PgDone(data, hasData, status, trace) ==
    [k |-> "done", outcome |-> "Succeeded", head |-> "", exc |-> NoExc, data |-> data,
     hasData |-> hasData, status |-> status, calls |-> 1, trace |-> trace]

Status(head, text) == Msg("return", head, Detail(text, -1))
PgCalled == <<"validate", "truth_test", "parse", "shape_check", "driver_call">>
PgDrained == Append(PgCalled, "materialize")
PgParsed == <<"validate", "truth_test", "parse">>
PgChecked == <<"validate", "truth_test", "parse", "shape_check">>

AfterCall(r, done) ==
    [a |-> IF r.raised THEN PgRaise(r.exc, 1, PgCalled) ELSE done, st |-> r.st]
Before(a, st) == [a |-> a, st |-> st]

PgInsertDocuments(st, fault, name, details) ==
    LET docs_str == OrDefault(DGet(details, "documents", T_EmptyArray), T_EmptyArray)
        p == JsonLoads(docs_str)
    IN  IF ~p.ok THEN Before(PgRaise(JsonExc(p.err), 0, PgParsed), st)
        ELSE IF ~IsInstanceList(p.val)
        THEN Before(PgRaise(ShapeError("Documents must be a JSON array."), 0, PgChecked), st)
        ELSE IF Falsy(p.val)
        THEN Before(PgRaise(ShapeError("Documents list is empty for insertion."), 0, PgChecked), st)
        ELSE LET r == DrvInsertMany(st, fault, name, p.val) IN
             AfterCall(r,
                PgDone(<<Dict(<<Pair("inserted_ids",
                                     List([i \in 1..Len(r.val) |-> PyStr(r.val[i])]))>>)>>,
                       TRUE, Status("Inserted documents.", ToString(Len(r.val))), PgCalled))

PgFindDocuments(st, fault, name, details) ==
    LET filter_str == OrDefault(DGet(details, "filter", T_EmptyObject), T_EmptyObject)
        given == DGet(details, "projection", T_Null)
        projection_str == IF Strip(given) = <<>> \/ Lower(given) = T_Null THEN T_Null ELSE given
        f == JsonLoads(filter_str)
        q == IF Lower(projection_str) # T_Null THEN JsonLoads(projection_str)
             ELSE [ok |-> TRUE, val |-> NoneV, err |-> [msg |-> "", pos |-> 0]]
    IN  IF ~f.ok THEN Before(PgRaise(JsonExc(f.err), 0, PgParsed), st)
        ELSE IF ~q.ok THEN Before(PgRaise(JsonExc(q.err), 0, PgParsed), st)
        ELSE LET r == DrvFind(st, fault, name, f.val, q.val) IN
             AfterCall(r, PgDone(r.val, TRUE,
                                 Status("Found documents.", ToString(Len(r.val))), PgDrained))

PgUpdateOne(st, fault, name, details) ==
    LET f == JsonLoads(OrDefault(DGet(details, "filter", T_EmptyObject), T_EmptyObject))
        u == JsonLoads(OrDefault(DGet(details, "update", T_EmptyObject), T_EmptyObject))
    IN  IF ~f.ok THEN Before(PgRaise(JsonExc(f.err), 0, PgParsed), st)
        ELSE IF ~u.ok THEN Before(PgRaise(JsonExc(u.err), 0, PgParsed), st)
        ELSE IF Falsy(u.val)
        THEN Before(PgRaise(ShapeError("Update document cannot be empty."), 0, PgChecked), st)
        ELSE LET r == DrvUpdateOne(st, fault, name, f.val, u.val, DGet(details, "upsert", FALSE)) IN
             AfterCall(r,
                PgDone(<<Dict(<<Pair("matched_count", Num(ToString(r.val.matched_count))),
                                Pair("modified_count", Num(ToString(r.val.modified_count))),
                                Pair("upserted_id",
                                     IF r.val.upserted_id.t # "None"
                                     THEN PyStr(r.val.upserted_id) ELSE NoneV)>>)>>,
                       TRUE, Status("Matched, Modified, Upserted ID", ToString(r.val.matched_count)),
                       PgCalled))

PgDeleteOne(st, fault, name, details) ==
    LET f == JsonLoads(OrDefault(DGet(details, "filter", T_EmptyObject), T_EmptyObject))
    IN  IF ~f.ok THEN Before(PgRaise(JsonExc(f.err), 0, PgParsed), st)
        ELSE LET r == DrvDeleteOne(st, fault, name, f.val) IN
             AfterCall(r, PgDone(<<Dict(<<Pair("deleted_count", Num(ToString(r.val)))>>)>>, TRUE,
                                 Status("Deleted document.", ToString(r.val)), PgCalled))

PgAggregate(st, fault, name, details) ==
    LET p == JsonLoads(OrDefault(DGet(details, "pipeline", T_EmptyArray), T_EmptyArray))
    IN  IF ~p.ok THEN Before(PgRaise(JsonExc(p.err), 0, PgParsed), st)
        ELSE IF ~IsInstanceList(p.val)
        THEN Before(PgRaise(ShapeError("Aggregation pipeline must be a JSON array."), 0, PgChecked), st)
        ELSE LET r == DrvAggregate(st, fault, name, p.val) IN
             AfterCall(r, PgDone(r.val, TRUE,
                                 Status("Aggregation returned results.", ToString(Len(r.val))),
                                 PgDrained))

PgCountDocuments(st, fault, name, details) ==
    LET f == JsonLoads(OrDefault(DGet(details, "filter", T_EmptyObject), T_EmptyObject))
    IN  IF ~f.ok THEN Before(PgRaise(JsonExc(f.err), 0, PgParsed), st)
        ELSE LET r == DrvCountDocuments(st, fault, name, f.val) IN
             AfterCall(r, PgDone(CountRecord(r.val), TRUE,
                                 Status("Found documents matching filter.", ToString(r.val)),
                                 PgCalled))

\* the loop over the parsed index keys: the [field, direction] pairs, or
\* the ValueError of the first item that is not a two-element list
IndexKeysOk(parsed) ==
    \A i \in 1..Len(parsed.items) : IsInstanceList(parsed.items[i]) /\ Len(parsed.items[i].items) = 2
IndexKeys(parsed) ==
    [i \in 1..Len(parsed.items) |->
        [field |-> parsed.items[i].items[1], dir |-> parsed.items[i].items[2]]]

PgCreateIndex(st, fault, name, details) ==
    LET k == JsonLoads(OrDefault(DGet(details, "keys", T_DefaultKeys), T_DefaultKeys))
        o == JsonLoads(OrDefault(DGet(details, "options", T_EmptyObject), T_EmptyObject))
    IN  IF ~k.ok THEN Before(PgRaise(JsonExc(k.err), 0, PgParsed), st)
        ELSE IF k.val.t \notin {"list", "dict", "str"}
        THEN Before(PgRaise(TypeError("object is not iterable"), 0, PgChecked), st)
        ELSE IF (k.val.t = "dict" /\ k.val.items # <<>>) \/ (k.val.t = "str" /\ k.val.s # "")
        THEN Before(PgRaise(ShapeError("Index keys must be an array of [field, direction] pairs."),
                            0, PgChecked), st)
        ELSE IF k.val.t = "list" /\ ~IndexKeysOk(k.val)
        THEN Before(PgRaise(ShapeError("Index keys must be an array of [field, direction] pairs."),
                            0, PgChecked), st)
        ELSE IF k.val.items = <<>>
        THEN Before(PgRaise(ShapeError("Index keys cannot be empty."), 0, PgChecked), st)
        ELSE IF ~o.ok THEN Before(PgRaise(JsonExc(o.err), 0, PgChecked), st)
        ELSE IF o.val.t # "dict"
        THEN Before(PgRaise(TypeError("argument after ** must be a mapping"), 0, PgChecked), st)
        ELSE LET r == DrvCreateIndex(st, fault, name, IndexKeys(k.val), o.val) IN
             AfterCall(r, PgDone(<<Dict(<<Pair("index_name", Str(r.val))>>)>>, TRUE,
                                 Status("Index created.", r.val), PgCalled))

PgListIndexes(st, fault, name) ==
    LET r == DrvListIndexes(st, fault, name) IN
    AfterCall(r,
       PgDone([i \in 1..Len(r.val) |->
                 Dict(<<Pair("name", Str(r.val[i].name)),
                        Pair("key", Dict(<<Pair(r.val[i].field, Num(r.val[i].dir))>>)),
                        Pair("v", Num("2")),
                        Pair("unique", V("bool", "false", <<>>))>>)],
              TRUE, Status("Indexes on collection:", ""), PgDrained))

NeedsCollection ==
    {"drop_collection", "insert_documents", "find_documents", "update_one", "delete_one",
     "aggregate", "count_documents", "create_index", "list_indexes"}

\* the body of the try block
PgTry(st, fault, truth, Names, details) ==
    LET op_type == DGet(details, "type", "None")
        coll_name == DGet(details, "collection", <<>>)
        name == Join(coll_name)
    IN
    IF op_type \notin {"list_collections", "drop_database"} /\ IsBlank(coll_name)
    THEN Before(PgReturn("CollectionRequired",
                   "Collection name is required and cannot be empty for this operation.",
                   <<"validate">>), st)
    ELSE IF op_type = "create_collection"
    THEN LET r == DrvCreateCollection(st, fault, name) IN
         [a |-> IF r.raised THEN PgRaise(r.exc, 1, <<"validate", "driver_call">>)
                ELSE PgDone(<<>>, FALSE, Status("Collection created or already exists", name),
                            <<"validate", "driver_call">>),
          st |-> r.st]
    ELSE IF op_type \in NeedsCollection /\ IsBlank(coll_name)
    THEN Before(PgReturn("CollectionRequired", "Collection name needed.", <<"validate">>), st)
    ELSE IF op_type \in NeedsCollection /\ truth = "raises"
    THEN Before(PgRaise(Exc("Exception",
                   "Collection objects do not implement truth value testing or bool()", ""),
                   0, <<"validate", "truth_test">>), st)
    ELSE IF op_type = "drop_collection"
    THEN LET r == DrvDrop(st, fault, name) IN
         AfterCall(r, PgDone(<<>>, FALSE, Status("Collection dropped", name), PgCalled))
    ELSE IF op_type = "insert_documents" THEN PgInsertDocuments(st, fault, name, details)
    ELSE IF op_type = "find_documents" THEN PgFindDocuments(st, fault, name, details)
    ELSE IF op_type = "update_one" THEN PgUpdateOne(st, fault, name, details)
    ELSE IF op_type = "delete_one" THEN PgDeleteOne(st, fault, name, details)
    ELSE IF op_type = "aggregate" THEN PgAggregate(st, fault, name, details)
    ELSE IF op_type = "count_documents" THEN PgCountDocuments(st, fault, name, details)
    ELSE IF op_type = "create_index" THEN PgCreateIndex(st, fault, name, details)
    ELSE IF op_type = "list_collections"
    THEN LET r == DrvListCollectionNames(st, fault, Names) IN
         [a |-> IF r.raised THEN PgRaise(r.exc, 1, <<"validate", "driver_call">>)
                ELSE PgDone([i \in 1..Len(r.val) |-> Dict(<<Pair("collection_name", Str(r.val[i]))>>)],
                            TRUE, Status("Collections in database:", ToString(Len(r.val))),
                            <<"validate", "driver_call", "materialize">>),
          st |-> r.st]
    ELSE IF op_type = "list_indexes" THEN PgListIndexes(st, fault, name)
    ELSE Before(PgReturn("UnsupportedOperation", "Unsupported operation type", <<"validate">>), st)

\* the except clauses of the playground executor, in their order
PlaygroundHandler(exc, calls, trace) ==
    Caught(exc,
        IF exc.cls = "JSONDecodeError"
        THEN Result("playground", "MalformedParameters", EmptyDF, 0,
                    Msg("return", "JSON Parsing Error", Detail(exc.str, exc.pos)), calls, trace)
        ELSE IF exc.cls = "OperationFailure"
        THEN Result("playground", "BackendRejected", EmptyDF, 0,
                    Msg("return", "MongoDB Operation Failure", Detail(exc.details, -1)), calls, trace)
        ELSE IF exc.cls = "ValueError"
        THEN Result("playground", "InvalidParameterShape", EmptyDF, 0,
                    Msg("return", "Input Error", Detail(exc.str, -1)), calls, trace)
        ELSE Result("playground", "Unexpected", EmptyDF, 0,
                    Msg("return", "An unexpected error occurred", Detail(exc.str, -1)), calls, trace))

\* how the try statement is left: an early return, an except clause, or the
\* frame built from result_data
PgResult(a) ==
    IF a.k = "return"
    THEN Result("playground", a.outcome, EmptyDF, 0, Msg("return", a.head, NoDetail), 0, a.trace)
    ELSE IF a.k = "raise" THEN PlaygroundHandler(a.exc, a.calls, a.trace)
    ELSE Result("playground", "Succeeded",
                NormalizeIds(IF a.hasData THEN DataFrame(a.data) ELSE EmptyDF),
                0, a.status, a.calls, Append(a.trace, "normalize"))
PgLeave(t) == [res |-> PgResult(t.a), st |-> t.st]

ExecuteMongoPlaygroundOperation(client, st, fault, truth, Names, operation_details) ==
    IF IsNone(client)
    THEN [res |-> Result("playground", "ConnectionUnavailable", EmptyDF, 0,
                         Msg("return", "MongoDB client not available.", NoDetail), 0, <<>>),
          st |-> st]
    ELSE PgLeave(PgTry(st, fault, truth, Names, operation_details))

(***************************************************************************)
(* The initial state: the seeded backends, no call made yet.               *)
(***************************************************************************)
CollNames == <<"karyawan", "indexed_karyawan">>

\* the employees the seed script inserts, with the identifiers it gives them
Employee(id, id_cabang) == Dict(<<Pair("_id", Str(id)), Pair("id_cabang", Str(id_cabang))>>)
SeedKaryawan == <<Employee("KR001", "CB01"), Employee("KR002", "CB02")>>

Row(emp, total, txn) ==
    Dict(<<Pair("id_karyawan", Str(emp)), Pair("total_transaksi", Num(total)),
           Pair("id_transaksi", Str(txn))>>)
SeedTables ==
    ( "transaksi_harian" :> <<Row("KR01", "1", "t1"), Row("KR02", "2", "t2"), Row("KR01", "2", "t3")>>
      @@ "indexed_transaksi_harian" :> <<Row("KR01", "1", "t1")>> )

\* the conditions a backend can be in when a call reaches it
CasFaults == {NoFault, Fault("call", Exc("Exception", "NoHostAvailable", "")),
              Fault("drain", Exc("Exception", "ReadTimeout", ""))}
MongoFaults ==
    {NoFault,
     Fault("call", Exc("OperationFailure", "not authorized", "not authorized")),
     Fault("call", Exc("OperationFailure", "Server returned an invalid nonce.", "None"))}

NoCall == [spec |-> [fn |-> "none"], env |-> NoFault, res |-> [fn |-> "none"],
           again |-> FALSE, before |-> EmptyDF]

(***************************************************************************)
(* The pages.  Streamlit runs the script from top to bottom once per user  *)
(* interaction, each browser session in a thread of its own with a         *)
(* session_state of its own; the values cached by st.cache_resource are    *)
(* shared by all of them.  Times are counted in ticks of 10 ms.            *)
(***************************************************************************)
Sessions == {"s1", "s2"}
Backends == {"mongo", "cassandra"}
Pages == {"Home", "MongoDB Benchmark", "Cassandra Benchmark"}

None == <<>>
Some(x) == <<x>>

\* an entry of st.cache_resource: value 0 is None, value k the k-th object
\* the function built; given collects the handles handed to executors
NotCached == [filled |-> FALSE, value |-> 0, built |-> 0, given |-> {}]
ConnectOutcomes == {"connected", "failed"}
\* a variant that does not keep a None: the body runs again until it
\* returns an object
CacheResourceRetriesNone(entry, outcome) ==
    IF entry.filled /\ entry.value # 0 THEN entry
    ELSE [entry EXCEPT !.filled = TRUE, !.built = @ + 1,
                       !.value = IF outcome = "connected" THEN entry.built + 1 ELSE 0]
\* a variant that runs the function body on every call
CacheResourceNoMemo(entry, outcome) ==
    [entry EXCEPT !.filled = TRUE, !.built = @ + 1,
                  !.value = IF outcome = "connected" THEN entry.built + 1 ELSE 0]
\* @st.cache_resource: the body runs on the first call only and whatever it
\* returned, None included, is returned by every later call
CacheResource(entry, outcome) ==
    IF entry.filled THEN entry
    ELSE [entry EXCEPT !.filled = TRUE, !.built = @ + 1,
                       !.value = IF outcome = "connected" THEN entry.built + 1 ELSE 0]

\* the top of the script and the dispatch: init_mongo_client() on every run,
\* get_cassandra_session() on the pages that use it
ScriptStart(page, o_mongo, o_cas) ==
    [mongo |-> CacheResource(cache.mongo, o_mongo),
     cassandra |-> IF page = "Cassandra Benchmark"
                   THEN CacheResource(cache.cassandra, o_cas) ELSE cache.cassandra]

DefaultCqlNon == <<"SELECT", " ", "transaksi_harian">>
DefaultCqlIdx == <<"SELECT", " ", "indexed_transaksi_harian">>
\* init_app_state
DefaultState ==
    [cas_non_df |-> None, cas_non_time |-> 0, cas_idx_df |-> None, cas_idx_time |-> 0,
     last_cas_non_q |-> DefaultCqlNon, last_cas_idx_q |-> DefaultCqlIdx,
     mongo_bm_non_df |-> None, mongo_bm_non_time |-> 0,
     mongo_bm_idx_df |-> None, mongo_bm_idx_time |-> 0,
     last_mongo_bm_params |-> T_EmptyObject, last_mongo_bm_entity |-> "karyawan",
     last_mongo_bm_op |-> "Find"]

NoJob == [page |-> "none", side |-> "none", handle |-> 0, target |-> "", op |-> "",
          text |-> <<>>]
NoMsg == Msg("", "", NoDetail)
Blank == [page |-> "none", warning |-> "", message |-> NoMsg, non |-> None, idx |-> None,
          chart |-> None]
NewSession ==
    [pc |-> "idle", ss |-> DefaultState, job |-> NoJob, clicked |-> "none", shown |-> Blank,
     ret |-> [b \in Backends |-> [non |-> None, idx |-> None]]]

\* what the offset added to the non-indexed MongoDB time amounts to, in ticks
MetricOffset == 5
DefaultParams(operation) == IF operation = "Aggregate" THEN T_EmptyArray ELSE T_EmptyObject
IndexedName(entity) == IF entity = "karyawan" THEN "indexed_karyawan" ELSE entity
\* json.loads of the stored text, of the page's default text when that fails
DisplayParams(ss, operation) ==
    IF JsonLoads(ss.last_mongo_bm_params).ok
    THEN JsonLoads(ss.last_mongo_bm_params).val
    ELSE JsonLoads(DefaultParams(operation)).val
Panel(label, metric, df) == [label |-> label, metric |-> metric, table |-> df[1]]

\* a variant that is content with one of the two times
EitherTimed(non_time, idx_time) == non_time > 0 \/ idx_time > 0
\* the condition of the "Comparison" expander: both times > 0.0
BothTimed(non_time, idx_time) == non_time > 0 /\ idx_time > 0

\* the "Benchmark Results" and "Comparison" expanders of the MongoDB page
MongoResults(ss, message, operation) ==
    LET label(coll) == [coll |-> coll, op |-> ss.last_mongo_bm_op,
                        params |-> DisplayParams(ss, operation), cql |-> <<>>]
    IN  [page |-> "MongoDB Benchmark", warning |-> "", message |-> message,
         non |-> IF ss.mongo_bm_non_df # None
                 THEN Some(Panel(label(ss.last_mongo_bm_entity),
                                 MetricOffset + ss.mongo_bm_non_time, ss.mongo_bm_non_df))
                 ELSE None,
         idx |-> IF ss.mongo_bm_idx_df # None
                 THEN Some(Panel(label(IndexedName(ss.last_mongo_bm_entity)),
                                 ss.mongo_bm_idx_time, ss.mongo_bm_idx_df))
                 ELSE None,
         chart |-> IF BothTimed(ss.mongo_bm_non_time, ss.mongo_bm_idx_time)
                   THEN Some([non |-> ss.mongo_bm_non_time + MetricOffset, idx |-> ss.mongo_bm_idx_time])
                   ELSE None]

\* st.code(query, language='sql')
Code(cql) == [coll |-> "", op |-> "", params |-> NoneV, cql |-> cql]
\* the same two expanders of the Cassandra page
CassandraResults(ss, message) ==
    [page |-> "Cassandra Benchmark", warning |-> "", message |-> message,
     non |-> IF ss.cas_non_df # None
             THEN Some(Panel(Code(ss.last_cas_non_q), ss.cas_non_time, ss.cas_non_df))
             ELSE None,
     idx |-> IF ss.cas_idx_df # None
             THEN Some(Panel(Code(ss.last_cas_idx_q), ss.cas_idx_time, ss.cas_idx_df))
             ELSE None,
     chart |-> IF BothTimed(ss.cas_non_time, ss.cas_idx_time)
               THEN Some([non |-> ss.cas_non_time, idx |-> ss.cas_idx_time])
               ELSE None]

Warned(page, text) == [Blank EXCEPT !.page = page, !.warning = text]
\* what a script run leaves on the screen
Screen(page, handles, ss, message, operation) ==
    IF page = "MongoDB Benchmark"
    THEN IF handles.mongo.value = 0
         THEN Warned(page, "MongoDB connection not established. Cannot run Benchmark.")
         ELSE MongoResults(ss, message, operation)
    ELSE IF page = "Cassandra Benchmark"
    THEN IF handles.cassandra.value = 0
         THEN Warned(page, "Cassandra session not established. Cannot run Benchmark.")
         ELSE CassandraResults(ss, message)
    ELSE Warned(page, "")

(***************************************************************************)
(* The combined-analytics page.  A date is a day number; a transaction and *)
(* an employee document are records of the columns the page reads; a cell  *)
(* of a column a frame lacks is "", a missing value is "NaN".              *)
(***************************************************************************)
FallbackDays == 730
DefaultSpan == 29

Min2(a, b) == IF a <= b THEN a ELSE b
Max2(a, b) == IF a >= b THEN a ELSE b

\* the employees of the generated transactions, in sorted order
EmployeeIds == <<"KR01", "KR02">>

Txn(tanggal, id_karyawan, total_transaksi, id_transaksi) ==
    [tanggal |-> tanggal, id_karyawan |-> id_karyawan,
     total_transaksi |-> total_transaksi, id_transaksi |-> id_transaksi]
EmpDoc(id_karyawan, nama_karyawan, jabatan) ==
    [id_karyawan |-> id_karyawan, nama_karyawan |-> nama_karyawan, jabatan |-> jabatan]
Cell(id_karyawan, total_sales, transactions_handled, nama_karyawan, jabatan) ==
    [id_karyawan |-> id_karyawan, total_sales |-> total_sales,
     transactions_handled |-> transactions_handled,
     nama_karyawan |-> nama_karyawan, jabatan |-> jabatan]

\* get_cassandra_date_bounds: the least and the greatest tanggal of the table
RECURSIVE Least(_)
Least(ds) == IF Len(ds) = 1 THEN ds[1] ELSE Min2(ds[1], Least(Tail(ds)))
RECURSIVE Greatest(_)
Greatest(ds) == IF Len(ds) = 1 THEN ds[1] ELSE Max2(ds[1], Greatest(Tail(ds)))
NoBounds == [min |-> None, max |-> None]
GetCassandraDateBounds(session, dates, fails) ==
    IF ~session \/ fails \/ dates = <<>> THEN NoBounds
    ELSE LET Dated(t) == t # None
             valid == SelectSeq(dates, Dated)
             all_py_dates == [i \in 1..Len(valid) |-> valid[i][1]]
         IN  IF all_py_dates = <<>> THEN NoBounds
             ELSE [min |-> Some(Least(all_py_dates)), max |-> Some(Greatest(all_py_dates))]

\* `if default_end_date_val < effective_min_date_for_input`
ClampEnd(end, effective_min) == IF end < effective_min THEN effective_min ELSE end

\* the ranges and the default values the page gives its two date pickers
DatePickers(today, min_db_date, max_db_date) ==
    LET effective_max == Min2(IF max_db_date # None THEN max_db_date[1] ELSE today, today)
        fallback_min == today - FallbackDays
        effective_min == IF min_db_date # None /\ fallback_min > min_db_date[1]
                         THEN min_db_date[1]
                         ELSE IF min_db_date # None THEN min_db_date[1] ELSE fallback_min
        default_end == ClampEnd(Min2(IF max_db_date # None THEN max_db_date[1] ELSE today - 1,
                                     today - 1), effective_min)
        start == Max2(default_end - DefaultSpan, effective_min)
        default_start == IF start > default_end THEN default_end ELSE start
    IN  [min_db_date |-> min_db_date, max_db_date |-> max_db_date,
         effective_min |-> effective_min, effective_max |-> effective_max,
         default_start |-> default_start, default_end |-> default_end]
NoPickers == DatePickers(0, None, None)

\* the rows the statement of fetch_cassandra_performance_data selects
FetchedRows(txns, start_date, end_date) ==
    LET InPeriod(r) == r.tanggal >= start_date /\ r.tanggal <= end_date
    IN  SelectSeq(txns, InPeriod)

RECURSIVE SumTotal(_, _)
SumTotal(rows, id) ==
    IF rows = <<>> THEN 0
    ELSE (IF Head(rows).id_karyawan = id THEN Head(rows).total_transaksi ELSE 0)
         + SumTotal(Tail(rows), id)
RECURSIVE CountTxn(_, _)
\* pandas count: the cells of the group that are not null
CountTxn(rows, id) ==
    IF rows = <<>> THEN 0
    ELSE (IF Head(rows).id_karyawan = id /\ Head(rows).id_transaksi # None THEN 1 ELSE 0)
         + CountTxn(Tail(rows), id)

\* df_raw.groupby('id_karyawan').agg(sum, count).reset_index(): sorted by key
GroupByEmployee(rows) ==
    LET keys == SelectIdx(EmployeeIds, {rows[i].id_karyawan : i \in 1..Len(rows)}, 1)
    IN  [columns |-> <<"id_karyawan", "total_sales", "transactions_handled">>,
         data |-> [k \in 1..Len(keys) |->
                     Cell(keys[k], SumTotal(rows, keys[k]), CountTxn(rows, keys[k]), "", "")]]

FetchCassandraPerformanceData(session, txns, fails, start_date, end_date) ==
    IF ~session \/ fails THEN EmptyDF
    ELSE IF FetchedRows(txns, start_date, end_date) = <<>> THEN EmptyDF
    ELSE GroupByEmployee(FetchedRows(txns, start_date, end_date))

\* find({"id_karyawan": {"$in": ids}}, projection) as a frame
FetchMongoEmployeeDetails(mongo_db_conn, employees, fails, employee_ids_list) ==
    IF ~mongo_db_conn \/ employee_ids_list = <<>> \/ fails THEN EmptyDF
    ELSE LET Listed(d) == d.id_karyawan # None /\ d.id_karyawan[1] \in Range(employee_ids_list)
             found == SelectSeq(employees, Listed)
             has == {"id_karyawan"}
                    \cup {c \in {"nama_karyawan", "jabatan"} :
                            \E i \in 1..Len(found) : found[i][c] # None}
             Field(d, c) == IF c \notin has THEN "" ELSE IF d[c] = None THEN "NaN" ELSE d[c][1]
         IN  IF found = <<>> THEN EmptyDF
             ELSE [columns |-> SelectIdx(<<"id_karyawan", "nama_karyawan", "jabatan">>, has, 1),
                   data |-> [i \in 1..Len(found) |->
                               EmpDoc(found[i].id_karyawan[1], Field(found[i], "nama_karyawan"),
                                      Field(found[i], "jabatan"))]]

RECURSIVE MergeRows(_, _)
\* the rows of pd.merge(left, right, on="id_karyawan", how="left")
MergeRows(left, right) ==
    IF left = <<>> THEN <<>>
    ELSE LET row == Head(left)
             Same(e) == e.id_karyawan = row.id_karyawan
             matches == SelectSeq(right.data, Same)
             Missing(c) == IF c \in Range(right.columns) THEN "NaN" ELSE ""
         IN  (IF matches = <<>>
              THEN <<[row EXCEPT !.nama_karyawan = Missing("nama_karyawan"),
                                 !.jabatan = Missing("jabatan")]>>
              ELSE [i \in 1..Len(matches) |->
                      [row EXCEPT !.nama_karyawan = matches[i].nama_karyawan,
                                  !.jabatan = matches[i].jabatan]])
             \o MergeRows(Tail(left), right)
Merge(left, right) ==
    [columns |-> left.columns \o SelectIdx(right.columns, {"nama_karyawan", "jabatan"}, 1),
     data |-> MergeRows(left.data, right)]

\* combined_df.fillna({"nama_karyawan": "N/A", "jabatan": "N/A"})
FillNa(df) ==
    LET Filled(v) == IF v = "NaN" THEN "N/A" ELSE v
    IN  [df EXCEPT !.data = [i \in 1..Len(df.data) |->
                               [df.data[i] EXCEPT !.nama_karyawan = Filled(@),
                                                  !.jabatan = Filled(@)]]]

\* the frame perform_analysis stores, given the frames of its two fetches
Combined(cassandra_perf_df, mongo_emp_df) ==
    IF ~DfEmpty(mongo_emp_df) THEN FillNa(Merge(cassandra_perf_df, mongo_emp_df))
    ELSE cassandra_perf_df

PerformAnalysis(txns, employees, casFails, mongoFails, start_date, end_date) ==
    LET cassandra_perf_df ==
            FetchCassandraPerformanceData(TRUE, txns, casFails, start_date, end_date)
        employee_ids == [i \in 1..Len(cassandra_perf_df.data) |->
                           cassandra_perf_df.data[i].id_karyawan]
    IN  IF ~DfEmpty(cassandra_perf_df) /\ "id_karyawan" \in Range(cassandra_perf_df.columns)
        THEN IF employee_ids # <<>>
             THEN Combined(cassandra_perf_df,
                           FetchMongoEmployeeDetails(TRUE, employees, mongoFails, employee_ids))
             ELSE EmptyDF
        ELSE EmptyDF

\* the page before it is opened, over the data it will read
NoRun == [ran |-> FALSE, casFails |-> FALSE, mongoFails |-> FALSE,
          start_date |-> 0, end_date |-> 0, perf |-> EmptyDF]
Page(today, dates, txns, employees) ==
    [pc |-> "closed", today |-> today, dates |-> dates, txns |-> txns,
     employees |-> employees, pickers |-> NoPickers, run |-> NoRun, df |-> None]

SeedDates == <<Some(760), Some(799)>>
SeedTxns == <<Txn(799, "KR01", 1, Some("T1")), Txn(799, "KR02", 2, Some("T2"))>>
SeedEmployees == <<EmpDoc(None, None, None)>>
NoAnalytics == Page(800, SeedDates, SeedTxns, SeedEmployees)

Installed ==
    /\ mongo = [store |-> ( "karyawan" :> [exists |-> TRUE, docs |-> SeedKaryawan,
                                           indexes |-> <<IdIndex>>]
                            @@ "indexed_karyawan" :>
                                 [exists |-> FALSE, docs |-> <<>>, indexes |-> <<>>] ),
                oid |-> 0]
    /\ tables = SeedTables
    /\ truthTest \in {"truthy", "raises"}
    /\ last = NoCall
    /\ invocations = 0
    /\ driverCalls = 0
    /\ cache = [b \in Backends |-> NotCached]
    /\ ui = [s \in Sessions |-> NewSession]

Init == Installed /\ analytics = NoAnalytics

(***************************************************************************)
(* Inputs.                                                                 *)
(***************************************************************************)
Durations == 1..MaxDur
StartTime == 5

Statements ==
    { <<>>, <<"\t", " ">>,
      <<"SELECT", " ", "transaksi_harian">>,
      <<" ", "SELECT", " ", "indexed_transaksi_harian", "\n">>,
      <<"SELEC", " ", "transaksi_harian">> }

T_NotJson == <<"not", " ", "json">>
T_Filter == <<"{", "\"id_cabang\"", ":", " ", "\"CB01\"", "}">>
T_Match == <<"[", "{", "\"$match\"", ":", "{", "\"id_cabang\"", ":", "\"CB01\"", "}", "}", "]">>
T_NewDoc == <<"[", "{", "\"_id\"", ":", "\"new_doc_1\"", "}", "]">>
T_NoIdDoc == <<"[", "{", "\"id_cabang\"", ":", "\"CB02\"", "}", "]">>
T_Set == <<"{", "\"$set\"", ":", "{", "\"id_cabang\"", ":", "\"CB02\"", "}", "}">>
T_Keys == <<"[", "[", "\"id_cabang\"", ",", "-1", "]", "]">>
T_BadKeys == <<"[", "[", "\"id_cabang\"", "]", "]">>

BenchCollections == {"karyawan", "indexed_karyawan"}
BenchOperations == {"Find", "Aggregate", "Count Documents", "Distinct"}
BenchTexts == {T_EmptyObject, T_EmptyArray, T_NotJson, T_Filter, T_Match}

PgBase(type, coll) == [type |-> type, collection |-> coll]
PgOn(coll) ==
    { PgBase(type, coll) :
        type \in {"list_collections", "create_collection", "drop_collection",
                  "list_indexes", "drop_database", "find_documents"} }
    \cup { PgBase("insert_documents", coll) @@ [documents |-> t] :
             t \in {T_NewDoc, T_NoIdDoc, T_EmptyArray, T_EmptyObject, T_NotJson} }
    \cup { PgBase("find_documents", coll) @@ [filter |-> t, projection |-> T_Null] :
             t \in {T_Filter, T_EmptyArray, T_NotJson, <<" ">>} }
    \cup { PgBase("find_documents", coll) @@ [filter |-> T_EmptyObject, projection |-> q] :
             q \in {<<"NULL">>, T_NotJson} }
    \cup { PgBase("update_one", coll) @@ [filter |-> T_Filter, update |-> t, upsert |-> FALSE] :
             t \in {T_Set, T_EmptyObject, T_Filter, T_NotJson} }
    \cup { PgBase("delete_one", coll) @@ [filter |-> t] : t \in {T_Filter, T_NotJson} }
    \cup { PgBase("aggregate", coll) @@ [pipeline |-> t] :
             t \in {T_Match, T_EmptyObject, T_NotJson} }
    \cup { PgBase("count_documents", coll) @@ [filter |-> t] :
             t \in {T_EmptyObject, T_EmptyArray, T_NotJson} }
    \cup { PgBase("create_index", coll) @@ [keys |-> t, options |-> T_EmptyObject] :
             t \in {T_Keys, T_BadKeys, T_EmptyArray, T_NotJson} }
    \cup { PgBase("create_index", coll) @@ [keys |-> t, options |-> T_NotJson] :
             t \in {T_Keys, T_BadKeys} }
PgBlank ==
    { PgBase("list_collections", <<" ">>), PgBase("drop_database", <<>>),
      PgBase("find_documents", <<" ">>) @@ [filter |-> T_NotJson, projection |-> T_Null],
      PgBase("count_documents", <<>>) @@ [filter |-> T_EmptyObject],
      PgBase("insert_documents", <<" ">>) @@ [documents |-> T_NewDoc] }
PgIndexed ==
    { PgBase("insert_documents", <<"indexed_karyawan">>) @@ [documents |-> T_NoIdDoc],
      PgBase("find_documents", <<"indexed_karyawan">>) }
PgDetails == PgOn(<<"karyawan">>) \cup PgIndexed \cup PgBlank

(***************************************************************************)
(* Actions: one call of an executor.  env is the condition of the backend  *)
(* when the call reaches it; a call without a handle reaches no backend.   *)
(***************************************************************************)
Spec3(fn, handle, target, op, params) ==
    [fn |-> fn, handle |-> handle, target |-> target, op |-> op, params |-> params]

\* the record of a finished call; again tells that the same spec ran just
\* before under the same backend condition
Record(spec, env, res) ==
    LET again == last.spec.fn = spec.fn /\ last.spec = spec /\ last.env = env
    IN  [spec |-> spec, env |-> env, res |-> res, again |-> again,
         before |-> IF again THEN last.res.rows ELSE EmptyDF]

Within(st) == \A n \in DOMAIN st.store : Len(st.store[n].docs) <= MaxDocs

\* the call returned out: the backend it left and the record of the call
Returned(spec, env, out) ==
    /\ IF spec.fn = "cassandra"
       THEN tables' = out.tables
       ELSE Within(out.st) /\ mongo' = out.st
    /\ last' = Record(spec, env, out.res)
    /\ driverCalls' = driverCalls + out.res.calls
    /\ invocations' = invocations + 1

CallCassandra ==
    /\ invocations < MaxInvocations
    /\ \E session \in BOOLEAN, cql_query \in Statements, d \in Durations :
       \E env \in IF session THEN CasFaults ELSE {NoFault} :
         Returned(Spec3("cassandra", session, "", "", cql_query), env,
                  ExecuteCassandraQuery(session, tables, env, cql_query, StartTime, d))
    /\ UNCHANGED <<mongo, truthTest, cache, ui, analytics>>

CallBenchmark ==
    /\ invocations < MaxInvocations
    /\ \E db_connection \in BOOLEAN, collection_name \in BenchCollections,
          operation_type \in BenchOperations, query_params_str \in BenchTexts, d \in Durations :
       \E env \in IF db_connection THEN MongoFaults ELSE {NoFault} :
         Returned(Spec3("benchmark", db_connection, collection_name, operation_type,
                        query_params_str), env,
                  ExecuteMongodbBenchmarkOperation(db_connection, mongo, env,
                       collection_name, operation_type, query_params_str, StartTime, d))
    /\ UNCHANGED <<tables, truthTest, cache, ui, analytics>>

CallPlayground ==
    /\ invocations < MaxInvocations
    /\ \E client \in BOOLEAN, operation_details \in PgDetails :
       \E env \in IF client THEN MongoFaults ELSE {NoFault} :
         Returned(Spec3("playground", client, "", "", operation_details), env,
                  ExecuteMongoPlaygroundOperation(client, mongo, env, truthTest,
                                                  CollNames, operation_details))
    /\ UNCHANGED <<tables, truthTest, cache, ui, analytics>>

Next == CallCassandra \/ CallBenchmark \/ CallPlayground

Spec == Init /\ [][Next]_vars

(***************************************************************************)
(* Actions of the pages.  A script run in which no button is clicked is    *)
(* one step.  A run in which a Run button is clicked is two: up to the     *)
(* executor's call of the backend, and from the backend's answer to the    *)
(* end of the script; the runs of other sessions go on in between.         *)
(***************************************************************************)
Sides == {"non", "idx"}
UiEntities == {"karyawan"}
UiOperations == {"Find", "Aggregate"}
UiTexts == {T_NotJson}
\* the text of a side's query box: left as it was or cleared
UiStatements(side) == {<<>>, IF side = "non" THEN DefaultCqlNon ELSE DefaultCqlIdx}
\* how the first call of an accessor can end; later calls do not connect
Connects(b) == IF cache[b].filled THEN {"connected"} ELSE ConnectOutcomes
\* the conditions of the backends met by the pages' runs
UiMongoFaults == {NoFault, Fault("call", Exc("OperationFailure", "not authorized", "not authorized"))}
UiCasFaults == {NoFault, Fault("call", Exc("Exception", "NoHostAvailable", ""))}

\* the session is between two script runs and the executor calls made and
\* in progress leave room for one more
MayRun(s) ==
    /\ ui[s].pc = "idle"
    /\ invocations + Cardinality({t \in Sessions : ui[t].pc = "executing"}) < MaxInvocations

\* a rerun without a click: any page, any widget values
Viewed(s, page, handles, operation) ==
    /\ cache' = handles
    /\ ui' = [ui EXCEPT ![s].clicked = "none",
                        ![s].shown = Screen(page, handles, ui[s].ss, NoMsg, operation)]
View(s) ==
    /\ ui[s].pc = "idle"
    /\ \E page \in Pages, o_mongo \in Connects("mongo") :
       \E operation \in IF page = "MongoDB Benchmark" THEN UiOperations ELSE {"Find"},
          o_cas \in IF page = "Cassandra Benchmark" THEN Connects("cassandra") ELSE {"connected"} :
         Viewed(s, page, ScriptStart(page, o_mongo, o_cas), operation)
    /\ UNCHANGED <<mongo, tables, truthTest, last, invocations, driverCalls, analytics>>

\* the script up to the executor's call
Started(s, b, handles, job, ss) ==
    /\ handles[b].value # 0
    /\ cache' = [handles EXCEPT ![b].given = @ \cup {handles[b].value}]
    /\ ui' = [ui EXCEPT ![s].pc = "executing", ![s].ss = ss,
                        ![s].job = [job EXCEPT !.handle = handles[b].value]]
    /\ UNCHANGED <<mongo, tables, truthTest, last, invocations, driverCalls, analytics>>

\* a click on one of the two Run buttons of the MongoDB page
RunMongo(s) ==
    /\ MayRun(s)
    /\ \E side \in Sides, entity \in UiEntities, operation \in UiOperations,
          o_mongo \in Connects("mongo") :
       \E mongo_params_str_bm \in UiTexts \cup {DefaultParams(operation)} :
         Started(s, "mongo", ScriptStart("MongoDB Benchmark", o_mongo, o_mongo),
                 [page |-> "MongoDB Benchmark", side |-> side, handle |-> 0,
                  target |-> IF side = "non" THEN entity ELSE IndexedName(entity),
                  op |-> operation, text |-> mongo_params_str_bm],
                 [ui[s].ss EXCEPT !.last_mongo_bm_params = mongo_params_str_bm,
                                  !.last_mongo_bm_entity = entity,
                                  !.last_mongo_bm_op = operation])

\* a click on one of the two Run buttons of the Cassandra page
RunCassandra(s) ==
    /\ MayRun(s)
    /\ \E side \in Sides, o_mongo \in Connects("mongo"), o_cas \in Connects("cassandra") :
       \E cql \in UiStatements(side) :
         Started(s, "cassandra", ScriptStart("Cassandra Benchmark", o_mongo, o_cas),
                 [page |-> "Cassandra Benchmark", side |-> side, handle |-> 0,
                  target |-> "", op |-> "", text |-> cql],
                 IF side = "non" THEN [ui[s].ss EXCEPT !.last_cas_non_q = cql]
                                 ELSE [ui[s].ss EXCEPT !.last_cas_idx_q = cql])

\* a variant that stores the pair for both sides
StoreMongoBoth(ss, side, df, t) ==
    [ss EXCEPT !.mongo_bm_non_df = Some(df), !.mongo_bm_non_time = t,
               !.mongo_bm_idx_df = Some(df), !.mongo_bm_idx_time = t]
\* df, t = execute_...(...) and the assignment of the pair to session_state
StoreMongo(ss, side, df, t) ==
    IF side = "non" THEN [ss EXCEPT !.mongo_bm_non_df = Some(df), !.mongo_bm_non_time = t]
                    ELSE [ss EXCEPT !.mongo_bm_idx_df = Some(df), !.mongo_bm_idx_time = t]
StoreCassandra(ss, side, df, t) ==
    IF side = "non" THEN [ss EXCEPT !.cas_non_df = Some(df), !.cas_non_time = t]
                    ELSE [ss EXCEPT !.cas_idx_df = Some(df), !.cas_idx_time = t]

\* the executor returned res: the rest of the script
Finished(s, b, job, res, ss) ==
    ui' = [ui EXCEPT ![s].pc = "idle", ![s].job = NoJob, ![s].ss = ss,
                     ![s].clicked = job.side,
                     ![s].ret[b][job.side] =
                         Some([rows |-> res.rows, elapsed |-> res.elapsed, by |-> job,
                               outcome |-> res.outcome]),
                     ![s].shown = Screen(job.page, cache, ss, res.msg, job.op)]

ReturnedMongo(s, job, env, out) ==
    /\ Returned(Spec3("benchmark", TRUE, job.target, job.op, job.text), env, out)
    /\ Finished(s, "mongo", job, out.res,
                StoreMongo(ui[s].ss, job.side, out.res.rows, out.res.elapsed))
ReturnMongo(s) ==
    /\ ui[s].pc = "executing" /\ ui[s].job.page = "MongoDB Benchmark"
    /\ \E env \in UiMongoFaults, d \in Durations :
         ReturnedMongo(s, ui[s].job, env,
                       ExecuteMongodbBenchmarkOperation(TRUE, mongo, env, ui[s].job.target,
                            ui[s].job.op, ui[s].job.text, StartTime, d))
    /\ UNCHANGED <<tables, truthTest, cache, analytics>>

ReturnedCassandra(s, job, env, out) ==
    /\ Returned(Spec3("cassandra", TRUE, "", "", job.text), env, out)
    /\ Finished(s, "cassandra", job, out.res,
                StoreCassandra(ui[s].ss, job.side, out.res.rows, out.res.elapsed))
ReturnCassandra(s) ==
    /\ ui[s].pc = "executing" /\ ui[s].job.page = "Cassandra Benchmark"
    /\ \E env \in UiCasFaults, d \in Durations :
         ReturnedCassandra(s, ui[s].job, env,
                           ExecuteCassandraQuery(TRUE, tables, env, ui[s].job.text, StartTime, d))
    /\ UNCHANGED <<mongo, truthTest, cache, analytics>>

UiNext ==
    \E s \in Sessions :
        View(s) \/ RunMongo(s) \/ RunCassandra(s) \/ ReturnMongo(s) \/ ReturnCassandra(s)

\* the pages run against the driver whose collections have a truth value
UiInit == Init /\ truthTest = "truthy"
UiSpec == UiInit /\ [][UiNext]_vars


(***************************************************************************)
(* Properties.                                                             *)
(***************************************************************************)
Called == last.spec.fn # "none"
OnDocuments == last.spec.fn \in {"benchmark", "playground"}
Steps == Range(last.res.trace)
AllWhitespace(text) == \A i \in 1..Len(text) : text[i] \in Whitespace

\* C1: a call of any executor with an absent handle returns the
\* connection-unavailable failure with an empty result and elapsed time 0,
\* and neither starts the timer, parses a parameter nor calls the driver.
C1_AbsentHandle ==
    (Called /\ ~last.spec.handle) =>
        /\ last.res.outcome = "ConnectionUnavailable"
        /\ last.res.rows = EmptyDF
        /\ last.res.elapsed = 0
        /\ Steps \cap {"timer_start", "parse", "driver_call"} = {}
        /\ last.res.calls = 0
C1_Witness ==
    /\ last.spec.fn = "benchmark" /\ ~last.spec.handle
    /\ last.spec.op = "Find" /\ last.spec.params = T_NotJson

\* C2: in the benchmark executor a Find or Count Documents whose text
\* parses to an array, and an Aggregate whose text parses to an object, fail
\* with the invalid-parameter-shape outcome, an empty result and elapsed 0,
\* and the driver is not called.
C2_WrongShape ==
    (/\ last.spec.fn = "benchmark" /\ last.spec.handle
     /\ JsonLoads(last.spec.params).ok
     /\ \/ /\ last.spec.op \in {"Find", "Count Documents"}
           /\ JsonLoads(last.spec.params).val.t = "list"
        \/ /\ last.spec.op = "Aggregate"
           /\ JsonLoads(last.spec.params).val.t = "dict")
    => /\ last.res.outcome = "InvalidParameterShape"
       /\ last.res.rows = EmptyDF
       /\ last.res.elapsed = 0
       /\ last.res.calls = 0
       /\ "driver_call" \notin Steps
C2_Witness ==
    /\ last.spec.fn = "benchmark" /\ last.spec.handle
    /\ last.spec.op = "Find" /\ last.spec.params = T_EmptyArray
    /\ last.res.outcome = "InvalidParameterShape"

\* the parameter texts of a playground call
PgTexts(details) ==
    {details[k] : k \in DOMAIN details
                       \cap {"documents", "filter", "projection", "update", "pipeline", "keys", "options"}}
NotJson(text) == ~JsonLoads(text).ok

\* C3: for every document-backend call with an available handle, a
\* parameter text that is not valid JSON yields the malformed-parameters
\* failure carrying the parse error, an empty result and no driver call.
C3_MalformedParameters ==
    (/\ OnDocuments /\ last.spec.handle
     /\ IF last.spec.fn = "benchmark" THEN NotJson(last.spec.params)
        ELSE \E t \in PgTexts(last.spec.params) : NotJson(t))
    => /\ last.res.outcome = "MalformedParameters"
       /\ last.res.msg.detail.text # ""
       /\ last.res.rows = EmptyDF
       /\ last.res.calls = 0

\* C4: the Cassandra executor with a session and an empty or whitespace-only
\* statement fails with the empty-statement outcome, an empty result and
\* elapsed 0, before the timer starts and without calling session.execute.
C4_EmptyStatement ==
    (/\ last.spec.fn = "cassandra" /\ last.spec.handle
     /\ AllWhitespace(last.spec.params))
    => /\ last.res.outcome = "EmptyStatement"
       /\ last.res.rows = EmptyDF
       /\ last.res.elapsed = 0
       /\ Steps \cap {"timer_start", "driver_call"} = {}
       /\ last.res.calls = 0
C4_Witness ==
    /\ last.spec.fn = "cassandra" /\ last.spec.handle
    /\ last.spec.params = <<"\t", " ">>
    /\ last.res.outcome = "EmptyStatement"

IsCount ==
    \/ last.spec.fn = "benchmark" /\ last.spec.op = "Count Documents"
    \/ last.spec.fn = "playground" /\ last.spec.params.type = "count_documents"
CountTarget ==
    IF last.spec.fn = "benchmark" THEN last.spec.target ELSE Join(last.spec.params.collection)
CountFilter ==
    IF last.spec.fn = "benchmark" THEN JsonLoads(last.spec.params).val
    ELSE JsonLoads(last.spec.params.filter).val

\* C5: a successful count (benchmark or playground) returns exactly one
\* record whose only field is count, holding the number of documents of the
\* collection that match the filter, also when the collection is empty.
C5_CountRecord ==
    (Called /\ IsCount /\ last.res.outcome = "Succeeded") =>
        /\ last.res.rows.columns = <<"count">>
        /\ Len(last.res.rows.data) = 1
        /\ last.res.rows.data[1][1].t = "int"
        /\ last.res.rows.data[1][1].s
             = ToString(Cardinality({i \in 1..Len(mongo.store[CountTarget].docs) :
                                       Matches(mongo.store[CountTarget].docs[i], CountFilter)}))
C5_Witness ==
    /\ Called /\ IsCount /\ last.res.outcome = "Succeeded"
    /\ mongo.store[CountTarget].docs = <<>>
    /\ last.res.rows.data = << <<Num("0")>> >>

Cells(df) == {df.data[i][j] : i \in 1..Len(df.data), j \in 1..Len(df.columns)}

\* C6: in every successful document-backend result no cell is an ObjectId:
\* every ObjectId of every record and every field was turned into a string.
C6_EveryObjectIdIsString ==
    (OnDocuments /\ last.res.outcome = "Succeeded") =>
        \A c \in Cells(last.res.rows) :
            c.t # "ObjectId" /\ \A i \in 1..Len(c.items) : c.items[i].t # "ObjectId"

\* C7: when a driver call raises, the executor returns a failure whose
\* message holds the text of the exception.
C7_FaultDetailPreserved ==
    (Called /\ last.res.calls >= 1 /\ last.res.exc.cls # "") =>
        /\ last.res.outcome # "Succeeded"
        /\ last.res.msg.detail.text = last.res.exc.str

\* C8: every failed call returns an empty result and elapsed time 0,
\* however far it got.
C8_AllOrNothing ==
    (Called /\ last.res.outcome # "Succeeded") =>
        last.res.rows = EmptyDF /\ last.res.elapsed = 0
C8_Witness ==
    /\ last.spec.fn = "cassandra" /\ last.env.at = "drain"
    /\ last.res.outcome = "BackendRejected"
    /\ "materialize" \in Steps /\ "timer_end" \in Steps

ValidationFailures ==
    {"ConnectionUnavailable", "EmptyStatement", "MalformedParameters", "CollectionRequired",
     "UnsupportedOperation"}
Count(seq, x) == Cardinality({i \in 1..Len(seq) : seq[i] = x})

\* C9: a call makes at most one driver query call: one when it succeeds or
\* the backend rejects it, none when validation fails; the driver calls made
\* never exceed the executor calls made.
C9_AtMostOneDriverCall ==
    /\ driverCalls <= invocations
    /\ Called =>
        /\ last.res.calls <= 1
        /\ Count(last.res.trace, "driver_call") = last.res.calls
        /\ last.res.outcome \in ValidationFailures => last.res.calls = 0
        /\ last.res.outcome \in {"Succeeded", "BackendRejected"} => last.res.calls = 1
        /\ (last.spec.fn = "benchmark" /\ last.res.outcome = "InvalidParameterShape")
             => last.res.calls = 0
C9_Witness ==
    /\ invocations = 2 /\ driverCalls = 1
    /\ last.res.outcome = "BackendRejected" /\ last.env.at = "call"

ReadOnly(spec) ==
    \/ spec.fn = "benchmark" /\ spec.op \in {"Find", "Count Documents", "Aggregate"}
    \/ spec.fn = "playground"
       /\ spec.params.type \in {"find_documents", "count_documents", "aggregate",
                                "list_collections", "list_indexes"}

C11_RowsAsYielded ==
    /\ (/\ last.spec.fn = "cassandra" /\ last.spec.handle
        /\ ~AllWhitespace(last.spec.params) /\ last.env.at = "none"
        /\ ~DrvExecute(tables, NoFault, last.spec.params).raised)
       => LET recs == DrvExecute(tables, NoFault, last.spec.params).val
              df == last.res.rows
          IN  /\ last.res.outcome = "Succeeded"
              /\ last.res.elapsed >= 0
              /\ Len(df.data) = Len(recs)
              /\ \A i \in 1..Len(recs) : \A j \in 1..Len(df.columns) :
                    /\ HasKey(recs[i], df.columns[j])
                    /\ df.data[i][j] = Get(recs[i], df.columns[j])
    /\ (/\ last.spec.fn = "benchmark" /\ last.spec.handle /\ last.spec.op = "Find"
        /\ last.spec.params = T_EmptyObject /\ last.env.at = "none")
       => /\ last.res.outcome = "Succeeded"
          /\ Len(last.res.rows.data) = Len(mongo.store[last.spec.target].docs)
C11_Witness ==
    /\ last.spec.fn = "cassandra" /\ last.res.outcome = "Succeeded"
    /\ Len(last.res.rows.data) = 3 /\ last.res.elapsed > 0

BenchKinds == {"Find", "Aggregate", "Count Documents"}
PgKinds ==
    {"create_collection", "drop_collection", "insert_documents", "find_documents", "update_one",
     "delete_one", "aggregate", "count_documents", "create_index", "list_collections",
     "list_indexes"}
UnsupportedKind ==
    \/ last.spec.fn = "benchmark" /\ last.spec.op \notin BenchKinds
    \/ last.spec.fn = "playground" /\ last.spec.params.type \notin PgKinds

\* C12: with a handle, an operation kind outside the enumerated set yields
\* the unsupported-operation failure with an empty result and no driver
\* call, whatever collection name and parameter text come with it.
C12_UnsupportedKind ==
    (OnDocuments /\ last.spec.handle /\ UnsupportedKind) =>
        /\ last.res.outcome = "UnsupportedOperation"
        /\ last.res.rows = EmptyDF
        /\ last.res.calls = 0

Outcomes ==
    {"ConnectionUnavailable", "EmptyStatement", "MalformedParameters", "InvalidParameterShape",
     "UnsupportedOperation", "CollectionRequired", "BackendRejected", "Unexpected", "Succeeded"}
ValidationSteps == {"validate", "parse", "shape_check", "kind_check", "truth_test"}
\* no step of the set late comes after a step named first
NeverAfter(trace, first, late) ==
    \A i \in 1..Len(trace) : \A j \in 1..Len(trace) :
        (i < j /\ trace[i] = first) => trace[j] \notin late
SameButTime(a, b) ==
    /\ a.outcome = b.outcome /\ a.rows = b.rows /\ a.msg = b.msg
    /\ a.calls = b.calls /\ a.trace = b.trace /\ a.exc = b.exc
    /\ (a.elapsed = 0) = (b.elapsed = 0)

\* C13: every call ends in exactly one terminal outcome, reaches the driver
\* only after its validation steps, and a call of the Cassandra or the
\* benchmark executor that repeats the previous spec under the same backend
\* condition ends as the previous one did, whatever that one's outcome was.
C13_OneShotFresh ==
    [][ /\ last'.res.outcome \in Outcomes
        /\ (last'.res.exc # NoExc) => (last'.res.outcome # "Succeeded")
        /\ NeverAfter(last'.res.trace, "driver_call", ValidationSteps)
        /\ (last'.again /\ last'.spec.fn \in {"cassandra", "benchmark"})
              => SameButTime(last'.res, last.res) ]_vars
C13_Witness ==
    /\ invocations = 2 /\ last.again /\ last.spec.fn = "benchmark"
    /\ last.res.outcome = "MalformedParameters"

\* C14: in every call no validation step comes after the start timestamp.
C14_ValidationBeforeTimer ==
    Called => NeverAfter(last.res.trace, "timer_start", ValidationSteps)

\* C15: in every successful timed call the end timestamp is taken after the
\* result was materialized.
C15_TimerCoversDrain ==
    (Called /\ last.res.outcome = "Succeeded" /\ last.res.timed)
        => NeverAfter(last.res.trace, "timer_end", {"materialize"})

\* the text a playground branch parses for key: the default when the key is
\* missing or blank
GivenText(details, key, default) ==
    IF key \in DOMAIN details /\ ~AllWhitespace(details[key]) THEN details[key] ELSE default
WrongShapeInPlayground ==
    LET d == last.spec.params IN
    \/ /\ d.type \in {"find_documents", "count_documents"}
       /\ JsonLoads(GivenText(d, "filter", T_EmptyObject)).ok
       /\ JsonLoads(GivenText(d, "filter", T_EmptyObject)).val.t # "dict"
    \/ /\ d.type = "aggregate"
       /\ JsonLoads(GivenText(d, "pipeline", T_EmptyArray)).ok
       /\ JsonLoads(GivenText(d, "pipeline", T_EmptyArray)).val.t # "list"

\* C19: a playground find or count whose filter is not a JSON object, and an
\* aggregate whose pipeline is not a JSON array, fail without the driver's
\* find, count_documents or aggregate being called.
C19_PlaygroundShape ==
    (/\ last.spec.fn = "playground" /\ last.spec.handle
     /\ ~AllWhitespace(last.spec.params.collection)
     /\ WrongShapeInPlayground)
    => /\ last.res.outcome # "Succeeded"
       /\ last.res.rows = EmptyDF
       /\ last.res.calls = 0
       /\ "driver_call" \notin Steps

(***************************************************************************)
(* Properties of the pages, under UiSpec.                                  *)
(***************************************************************************)
PageOf(b) == IF b = "mongo" THEN "MongoDB Benchmark" ELSE "Cassandra Benchmark"
Executing(s, b) == ui[s].pc = "executing" /\ ui[s].job.page = PageOf(b)
\* session s ran a script in this step, on a page that calls the accessor of b
Asked(s, b) ==
    /\ ui'[s] # ui[s]
    /\ b = "cassandra" => \/ ui'[s].shown.page = "Cassandra Benchmark"
                          \/ ui'[s].job.page = "Cassandra Benchmark"

C17_SidesNeverOverlap ==
    \A s, t \in Sessions :
        (/\ ui[s].pc = "executing" /\ ui[t].pc = "executing"
         /\ ui[s].job.page = ui[t].job.page
         /\ ui[s].job.handle = ui[t].job.handle)
        => ui[s].job.side = ui[t].job.side

FailureShown(s) == ui[s].shown.message.level \in {"error", "warning"}
\* C18: after a run of a side that failed, the page shows the failure
\* message and neither the result panel of that side nor the chart.
C18_FailedSideOmitted ==
    \A s \in Sessions :
        (ui[s].pc = "idle" /\ ui[s].clicked # "none" /\ FailureShown(s))
        => /\ ui[s].shown[ui[s].clicked] = None
           /\ ui[s].shown.chart = None

StoredPair(ss, b, side) ==
    IF b = "mongo"
    THEN IF side = "non" THEN <<ss.mongo_bm_non_df, ss.mongo_bm_non_time>>
                         ELSE <<ss.mongo_bm_idx_df, ss.mongo_bm_idx_time>>
    ELSE IF side = "non" THEN <<ss.cas_non_df, ss.cas_non_time>>
                         ELSE <<ss.cas_idx_df, ss.cas_idx_time>>
\* C20: for every side that has run, what session_state holds and what the
\* page shows for it are the rows and the elapsed time the side's most
\* recent run returned.
C20_LatestResultShown ==
    \A s \in Sessions, b \in Backends, side \in Sides :
        (ui[s].pc = "idle" /\ ui[s].ret[b][side] # None)
        => /\ StoredPair(ui[s].ss, b, side)
                = <<Some(ui[s].ret[b][side][1].rows), ui[s].ret[b][side][1].elapsed>>
           /\ (ui[s].shown.page = PageOf(b) /\ ui[s].shown.warning = "")
              => /\ ui[s].shown[side] # None
                 /\ ui[s].shown[side][1].table = ui[s].ret[b][side][1].rows
                 /\ ui[s].shown[side][1].metric = ui[s].ret[b][side][1].elapsed

WellFormedFind(d) ==
    /\ d.type = "find_documents"
    /\ JsonLoads(GivenText(d, "filter", T_EmptyObject)).ok
    /\ JsonLoads(GivenText(d, "filter", T_EmptyObject)).val.t = "dict"
    /\ \/ Lower(GivenText(d, "projection", T_Null)) = T_Null
       \/ /\ JsonLoads(d.projection).ok
          /\ JsonLoads(d.projection).val.t \in {"dict", "None"}
WellFormedInsert(d) ==
    /\ d.type = "insert_documents"
    /\ JsonLoads(GivenText(d, "documents", T_EmptyArray)).ok
    /\ JsonLoads(GivenText(d, "documents", T_EmptyArray)).val.t = "list"
    /\ JsonLoads(GivenText(d, "documents", T_EmptyArray)).val.items # <<>>
    /\ \A v \in Range(JsonLoads(GivenText(d, "documents", T_EmptyArray)).val.items) : v.t = "dict"
\* the number the status message of the last call reports
Reported == last.res.msg.detail.text

\* C23: a playground find or insert on a named collection with well-formed
\* parameters that the backend accepts succeeds, and its status reports the
\* number of rows found, respectively the number of identifiers inserted.
C23_StatusCounts ==
    (/\ last.spec.fn = "playground" /\ last.spec.handle
     /\ ~AllWhitespace(last.spec.params.collection)
     /\ last.env = NoFault
     /\ last.res.outcome # "BackendRejected"
     /\ WellFormedFind(last.spec.params) \/ WellFormedInsert(last.spec.params))
    => /\ last.res.outcome = "Succeeded"
       /\ WellFormedFind(last.spec.params)
          => /\ last.res.msg.head = "Found documents."
             /\ Reported = ToString(Len(last.res.rows.data))
       /\ WellFormedInsert(last.spec.params)
          => /\ last.res.msg.head = "Inserted documents."
             /\ Len(last.res.rows.data) = 1
             /\ Reported = ToString(Len(last.res.rows.data[1][1].items))

Parsed(d, key, default) == JsonLoads(GivenText(d, key, default))
\* the inputs the playground's own checks turn down
FailsOwnChecks(d) ==
    \/ d.type # "list_collections" /\ AllWhitespace(d.collection)
    \/ /\ d.type = "insert_documents"
       /\ Parsed(d, "documents", T_EmptyArray).ok
       /\ \/ Parsed(d, "documents", T_EmptyArray).val.t # "list"
          \/ Parsed(d, "documents", T_EmptyArray).val.items = <<>>
    \/ /\ d.type = "update_one"
       /\ Parsed(d, "update", T_EmptyObject).ok
       /\ Falsy(Parsed(d, "update", T_EmptyObject).val)
    \/ /\ d.type = "create_index"
       /\ Parsed(d, "keys", T_DefaultKeys).ok
       /\ Parsed(d, "keys", T_DefaultKeys).val.t = "list"
       /\ \/ Parsed(d, "keys", T_DefaultKeys).val.items = <<>>
          \/ \E item \in Range(Parsed(d, "keys", T_DefaultKeys).val.items) :
                item.t # "list" \/ Len(item.items) # 2

\* C29: a playground call whose input fails the playground's own checks
\* (blank collection name, documents that are no array or an empty one, an
\* empty update document, index keys that are empty or hold an item that is
\* no two-element list) returns an error message with an empty result and
\* makes no driver call.
C29_OwnChecks ==
    (last.spec.fn = "playground" /\ last.spec.handle /\ FailsOwnChecks(last.spec.params))
    => /\ last.res.outcome # "Succeeded"
       /\ last.res.msg.head # ""
       /\ last.res.rows = EmptyDF
       /\ last.res.calls = 0
       /\ "driver_call" \notin Steps
C29_Witness ==
    /\ last.spec.fn = "playground" /\ last.spec.handle
    /\ last.spec.params.type = "insert_documents"
    /\ ~AllWhitespace(last.spec.params.collection)
    /\ FailsOwnChecks(last.spec.params)
    /\ last.res.outcome = "InvalidParameterShape"
    /\ last.res.msg.detail.text = "Documents list is empty for insertion."

\* the run that produced the result session s holds for a side
LastRun(s, b, side) == ui[s].ret[b][side][1]
Intent(job) ==
    [entity |-> CHOOSE e \in UiEntities : job.target \in {e, IndexedName(e)},
     op |-> job.op, text |-> job.text]
ComparisonShown(s) ==
    /\ ui[s].shown.page = "MongoDB Benchmark"
    /\ ui[s].shown.non # None /\ ui[s].shown.idx # None /\ ui[s].shown.chart # None

\* C21: whenever the MongoDB page shows both panels and the chart, the two
\* results in them come from runs with the same entity, the same operation
\* and the same parameter text.
C21_SameIntent ==
    \A s \in Sessions :
        (ui[s].pc = "idle" /\ ComparisonShown(s))
        => Intent(LastRun(s, "mongo", "non").by) = Intent(LastRun(s, "mongo", "idx").by)

\* C22: the time a panel shows, and the time the chart shows for that side,
\* is the elapsed time the side's most recent run returned.
C22_TimeAsReturned ==
    \A s \in Sessions, b \in Backends, side \in Sides :
        (ui[s].pc = "idle" /\ ui[s].shown.page = PageOf(b) /\ ui[s].shown[side] # None)
        => /\ ui[s].shown[side][1].metric = LastRun(s, b, side).elapsed
           /\ ui[s].shown.chart # None
              => ui[s].shown.chart[1][side] = LastRun(s, b, side).elapsed

\* C24: an accessor returns a handle or absent; once its first call has
\* returned, no later call connects again, and every later script run is
\* given what the first call returned: absent stays absent, a handle stays
\* that handle.
C24_NeverReconnects ==
    [][\A b \in Backends :
         cache[b].filled =>
            /\ cache'[b].built = cache[b].built
            /\ cache'[b].value = cache[b].value
            /\ \A s \in Sessions :
                 (ui'[s] # ui[s] /\ ui'[s].pc = "idle" /\ ui'[s].shown.page = PageOf(b))
                 => ((ui'[s].shown.warning # "") <=> (cache[b].value = 0))]_vars
C24_Witness ==
    /\ cache.mongo.filled /\ cache.mongo.value = 0 /\ cache.mongo.built = 1
    /\ \A s \in Sessions :
         ui[s].shown.page = "MongoDB Benchmark" /\ ui[s].shown.warning # ""

OtherSide(side) == IF side = "non" THEN "idx" ELSE "non"
\* session s finished a run on the page of b in this step
RanOn(s, b) == ui[s].pc = "executing" /\ ui'[s].pc = "idle" /\ ui[s].job.page = PageOf(b)

\* C26: a run of one side, whether it succeeds or fails, leaves the rows and
\* the elapsed time stored for the other side of the same page as they were.
C26_OtherSideKept ==
    [][\A s \in Sessions, b \in Backends :
         RanOn(s, b) =>
            StoredPair(ui'[s].ss, b, OtherSide(ui[s].job.side))
                = StoredPair(ui[s].ss, b, OtherSide(ui[s].job.side))]_vars
C26_Witness ==
    \E s \in Sessions :
        /\ ui[s].pc = "idle" /\ ui[s].clicked = "non"
        /\ ui[s].shown.message.level = "error"
        /\ ui[s].ss.mongo_bm_non_df = Some(EmptyDF)
        /\ ui[s].ss.mongo_bm_idx_df # None /\ ui[s].ss.mongo_bm_idx_time > 0

\* C27: on the MongoDB page the collection, the operation and the parameters
\* shown beside a displayed result are those of the run that produced it.
C27_LabelOfOwnRun ==
    \A s \in Sessions, side \in Sides :
        (/\ ui[s].pc = "idle" /\ ui[s].shown.page = "MongoDB Benchmark"
         /\ ui[s].shown[side] # None)
        => /\ ui[s].shown[side][1].label.coll = LastRun(s, "mongo", side).by.target
           /\ ui[s].shown[side][1].label.op = LastRun(s, "mongo", side).by.op
           /\ JsonLoads(LastRun(s, "mongo", side).by.text).ok
              => ui[s].shown[side][1].label.params
                    = JsonLoads(LastRun(s, "mongo", side).by.text).val

ChartShown(s) == ui[s].shown.chart # None
\* the most recent run of a side by session s succeeded
LastRunSucceeded(s, b, side) ==
    ui[s].ret[b][side] # None /\ LastRun(s, b, side).outcome = "Succeeded"

UpTo(S, n) == UNION {[1..k -> S] : k \in 0..n}

Todays == {800, 801}
TableDates == {None} \cup {Some(d) : d \in {0, 760, 799, 800, 801, 802}}
TxnChoices == {Txn(t, e, a, Some("T1")) : t \in {760, 799}, e \in Range(EmployeeIds), a \in {1, 2}}
EmpChoices == {EmpDoc(None, None, None), EmpDoc(Some("KR01"), Some("Ani"), Some("Kasir")),
               EmpDoc(Some("KR02"), Some("Budi"), None)}
AnalyticsInputs ==
    {Page(t, d, SeedTxns, SeedEmployees) : t \in Todays, d \in UpTo(TableDates, MaxRows)}
    \cup {Page(800, SeedDates, x, e) : x \in UpTo(TxnChoices, MaxRows), e \in UpTo(EmpChoices, MaxRows)}

\* st.date_input takes a default value only inside its min_value..max_value
Accepts(p) ==
    /\ p.effective_min <= p.default_start /\ p.default_start <= p.effective_max
    /\ p.default_start <= p.default_end /\ p.default_end <= p.effective_max

ShowCombinedAnalyticsPage ==
    /\ analytics.pc = "closed"
    /\ \E cassandra_session_instance \in BOOLEAN, mongo_db_client_instance \in BOOLEAN,
          fails \in BOOLEAN :
         IF ~cassandra_session_instance \/ ~mongo_db_client_instance
         THEN analytics' = [analytics EXCEPT !.pc = "unavailable"]
         ELSE LET b == GetCassandraDateBounds(TRUE, analytics.dates, fails)
                  p == DatePickers(analytics.today, b.min, b.max)
              IN  analytics' = [analytics EXCEPT !.pickers = p,
                                    !.pc = IF Accepts(p) THEN "shown" ELSE "raised"]
    /\ UNCHANGED <<mongo, tables, truthTest, last, invocations, driverCalls, cache, ui>>

RunCombinedAnalysis ==
    /\ analytics.pc = "shown"
    /\ LET p == analytics.pickers
           picks == {p.effective_min, p.default_start, p.default_end, p.effective_max}
       IN  \E start_date \in picks, end_date \in picks, casFails \in BOOLEAN, mongoFails \in BOOLEAN :
             /\ start_date <= end_date
             /\ analytics' =
                  [analytics EXCEPT
                     !.run = [ran |-> TRUE, casFails |-> casFails, mongoFails |-> mongoFails,
                              start_date |-> start_date, end_date |-> end_date,
                              perf |-> FetchCassandraPerformanceData(TRUE, analytics.txns,
                                           casFails, start_date, end_date)],
                     !.df = Some(PerformAnalysis(analytics.txns, analytics.employees,
                                                 casFails, mongoFails, start_date, end_date))]
    /\ UNCHANGED <<mongo, tables, truthTest, last, invocations, driverCalls, cache, ui>>

AnalyticsNext == ShowCombinedAnalyticsPage \/ RunCombinedAnalysis
AnalyticsInit == Installed /\ truthTest = "truthy" /\ analytics \in AnalyticsInputs
AnalyticsSpec == AnalyticsInit /\ [][AnalyticsNext]_vars

\* the rows the last analysis fetched
Fetched == FetchedRows(analytics.txns, analytics.run.start_date, analytics.run.end_date)
RowsOf(id) == {i \in 1..Len(Fetched) : Fetched[i].id_karyawan = id}
RECURSIVE Total(_)
Total(is) ==
    IF is = {} THEN 0
    ELSE LET i == CHOOSE j \in is : TRUE IN Fetched[i].total_transaksi + Total(is \ {i})
\* the document store holds a record of the employee
Recorded(id) ==
    \E i \in 1..Len(analytics.employees) : analytics.employees[i].id_karyawan = Some(id)

\* C25: after an analysis whose two fetches went through, the frame of
\* fetch_cassandra_performance_data has exactly one row per employee of the
\* fetched rows, with the sum of total_transaksi and the number of the
\* employee's rows, and the stored result keeps every one of these rows,
\* with nama_karyawan and jabatan 'N/A' for an employee the document store
\* has no record of.
C25_GroupByLeftJoin ==
    (analytics.run.ran /\ ~analytics.run.casFails /\ ~analytics.run.mongoFails) =>
      LET perf == analytics.run.perf.data
          df == analytics.df[1]
      IN  /\ \A i \in 1..Len(Fetched) :
                Cardinality({k \in 1..Len(perf) :
                               perf[k].id_karyawan = Fetched[i].id_karyawan}) = 1
          /\ \A k \in 1..Len(perf) :
                /\ RowsOf(perf[k].id_karyawan) # {}
                /\ perf[k].total_sales = Total(RowsOf(perf[k].id_karyawan))
                /\ perf[k].transactions_handled = Cardinality(RowsOf(perf[k].id_karyawan))
                /\ \E j \in 1..Len(df.data) :
                      /\ df.data[j].id_karyawan = perf[k].id_karyawan
                      /\ df.data[j].total_sales = perf[k].total_sales
                      /\ df.data[j].transactions_handled = perf[k].transactions_handled
          /\ \A j \in 1..Len(df.data) :
                ~Recorded(df.data[j].id_karyawan) =>
                   /\ {"nama_karyawan", "jabatan"} \subseteq Range(df.columns)
                   /\ df.data[j].nama_karyawan = "N/A"
                   /\ df.data[j].jabatan = "N/A"

\* C30: once the page has computed its date pickers, whatever today's date
\* and the date bounds of the database are, the defaults satisfy
\* effective_min <= default_start <= default_end <= effective_max.
C30_DefaultsInRange ==
    analytics.pc \in {"shown", "raised"} =>
      /\ analytics.pickers.effective_min <= analytics.pickers.default_start
      /\ analytics.pickers.default_start <= analytics.pickers.default_end
      /\ analytics.pickers.default_end <= analytics.pickers.effective_max

====
